---- MODULE Spec2Model ----
(***************************************************************************)
(* Thumbnail-Master: the SQLite index (indexer.py, ThumbnailDatabase), the *)
(* ingestion pass that fills it from the thumbcache decoder (parser.py),   *)
(* the paginated query over it, and the export endpoint (app.py,           *)
(* exporter.py).  The committed database is (thumbnails, metadata,         *)
(* sqlite_sequence); every thread owns a connection, whose open write      *)
(* transaction is the workspace tx.                                        *)
(***************************************************************************)
EXTENDS Integers, Sequences, FiniteSets, TLC

(* ------------------------------ bounds -------------------------------- *)

\* Highest row id the model lets AUTOINCREMENT hand out.
MaxSeq == 2

\* Most raw entries the decoder produces from one cache file.
MaxEntries == 2

\* Most calls of public methods the single caller makes in one run.
MaxCalls == 3

\* Most entries index_all counts in the pass that reports its progress.
MaxCount == 250

\* Most rows in the store a query or an export reads.
MaxRows == 3

\* Longest id list of an export request, the lists around the export ceiling
\* aside.
MaxIds == 3

(* ------------------------------- state -------------------------------- *)

VARIABLES
    DISSECT_AVAILABLE, \* parser.py: whether dissect.thumbcache imported
    thumbnails,        \* committed rows of table thumbnails
    metadata,          \* committed table metadata: key -> value or Null
    sqlite_sequence,   \* AUTOINCREMENT's high-water mark for thumbnails
    tx,                \* the open write transaction: {} or {[owner, thumbnails, metadata]}
    pc,                \* per thread: where it is in its call
    op,                \* per thread: the public method it is running
    scope,             \* per thread: cache_files / selected_files argument
    entry,             \* per thread: index_thumbnail's argument (NoneOpt or <<e>>)
    files,             \* per thread: cache files the generator has still to parse
    pos,               \* per thread: raw entries taken from the current file
    count,             \* per thread: index_all's running count
    ret,               \* per thread: the value returned (-1: none)
    exc,               \* per thread: the exception raised (Null: none)
    calls,             \* history: calls of public methods made so far
    removed,           \* history: rows the call's REPLACE or DELETE took out of the table
    issued,            \* history: the row ids upserts have returned, in order
    seen,              \* history: non-empty raw entries decoded in this pass
    yielded,           \* history: (file, key) pairs upserted by this pass
    failedFiles,       \* history: files whose decoding failed in this pass
    now,               \* the clock CURRENT_TIMESTAMP reads, in seconds
    scan,              \* the order in which SQLite visits rows of equal sort key
    progress_callback, \* whether index_all was given a progress callback
    progress,          \* history: the callback's calls (current, total), in order
    args,              \* get_thumbnails' arguments (NoneOpt: no query yet)
    total,             \* get_thumbnails' total (-1: not counted yet)
    listed,            \* get_thumbnails' page of summaries
    pages,             \* history: the id lists of the pages one query has returned
    request,           \* the body of the HTTP request in hand
    response,          \* what the handler answered
    storeCalls,        \* history: Store methods the handler has called
    _db_instance,      \* indexer.py: the global instance (NoneOpt: None)
    constructed,       \* history: runs of ThumbnailDatabase.__init__ in the process
    cache_name,        \* the file name get_cache_size_from_filename was given
    cache_code         \* what get_cache_size_from_filename returned for it

(* ----------------------------- universe ------------------------------- *)

\* Python's None / SQL NULL for text values.
Null == "<null>"

\* An attribute the decoder's entry object does not have.
NoAttr == "<noattr>"

\* Optional values that are not text: None is <<>>, a value v is <<v>>.
NoneOpt == <<>>

Some(v) == <<v>>

Threads == {"t1", "t2"}

MainThread == "t1"

\* The cache files in the cache directory.
DiskNames == {"thumbcache_32.db", "thumbcache_256.db"}

THUMBCACHE_FILES ==
    << "thumbcache_32.db", "thumbcache_96.db", "thumbcache_256.db",
       "thumbcache_1024.db", "thumbcache_sr.db", "thumbcache_wide.db",
       "thumbcache_exif.db", "thumbcache_wide_alternate.db" >>

\* Payloads the decoder may hand over (sequences of bytes).
Payloads == { <<>>, <<7>>, <<7, 8>> }

\* What the decoder yields for one entry: identifier (text or None), hash
\* (bytes, or no such attribute), data (None or bytes).
RawEntries ==
    { r \in [ identifier : {Null, "k1"},
              hash       : {NoAttr, "h1"},
              data       : {NoneOpt} \cup { Some(p) : p \in Payloads } ] :
        r.identifier = Null <=> r.hash = "h1" }

\* The scopes a caller passes: None, the empty list, or a list of names.
Scopes ==
    { NoneOpt, Some(<<>>),
      Some(<<"thumbcache_32.db">>),
      Some(<<"thumbcache_32.db", "thumbcache_256.db">>) }

MetaKeys == {"last_indexed", "thumbnail_count", "selected_files"}

Range(s) == { s[i] : i \in 1..Len(s) }

(* --------------------------- pure functions --------------------------- *)

\* The i-th character of a text.
CharAt(s, i) == SubSeq(s, i, i)

UpperCase == "ABCDEFGHIJKLMNOPQRSTUVWXYZ"

LowerCase == "abcdefghijklmnopqrstuvwxyz"

\* One character in lower case (ASCII letters only, as str.lower() and
\* SQLite's LIKE fold them).
LowerChar(c) ==
    IF \E i \in 1..Len(UpperCase) : CharAt(UpperCase, i) = c
    THEN CharAt(LowerCase, CHOOSE i \in 1..Len(UpperCase) : CharAt(UpperCase, i) = c)
    ELSE c

\* str.lower()
RECURSIVE Lower(_)
Lower(s) ==
    IF Len(s) = 0 THEN ""
    ELSE LowerChar(CharAt(s, 1)) \o Lower(SubSeq(s, 2, Len(s)))

\* Python's `sub in s` for texts.
Contains(s, sub) ==
    \E i \in 1..(Len(s) - Len(sub) + 1) : SubSeq(s, i, i + Len(sub) - 1) = sub

\* get_cache_size_from_filename: the first pattern, in the order of the
\* elif chain, that the lower-cased name contains.
get_cache_size_from_filename(filename) ==
    LET name == Lower(filename)
    IN  IF Contains(name, "thumbcache_32") THEN "32"
        ELSE IF Contains(name, "thumbcache_96") THEN "96"
        ELSE IF Contains(name, "thumbcache_256") THEN "256"
        ELSE IF Contains(name, "thumbcache_1024") THEN "1024"
        ELSE IF Contains(name, "thumbcache_sr") THEN "sr"
        ELSE IF Contains(name, "thumbcache_wide") THEN "wide"
        ELSE IF Contains(name, "thumbcache_exif") THEN "exif"
        ELSE IF Contains(name, "thumbcache_wide_alternate") THEN "wide_alt"
        ELSE IF Contains(name, "thumbcache_custom") THEN "custom"
        ELSE IF Contains(name, "thumbcache_16") THEN "16"
        ELSE IF Contains(name, "thumbcache_48") THEN "48"
        ELSE IF Contains(name, "thumbcache_2560") THEN "2560"
        ELSE "unknown"

\* cache_size = get_cache_size_from_filename(file_path.name), once per file.
CacheSizeOf == [ f \in DiskNames |-> get_cache_size_from_filename(f) ]

\* The twelve patterns of the elif chain, in its order.
Patterns ==
    << "32", "96", "256", "1024", "sr", "wide", "exif", "wide_alternate", "custom",
       "16", "48", "2560" >>

\* File names the function may be given: for every pattern the plain cache
\* file, the same in capitals outside the pattern, and a copy whose name has
\* more text around it; and names of other files.
FileNames ==
    UNION { { "thumbcache_" \o Patterns[i] \o ".db",
              "THUMBCACHE_" \o Patterns[i] \o ".DB",
              "old_thumbcache_" \o Patterns[i] \o ".db.bak" } : i \in 1..Len(Patterns) }
    \cup { "", "thumbs.db", "thumbcache_idx.db", "thumbcache_64.db", "iconcache_32.db",
           "thumbcache.db", "Thumbcache_Wide.db" }

\* The one payload of the universe that the image library can decode.
PngPayload == << 7, 8 >>

\* get_image_info: the format of the image, None where the payload cannot
\* be decoded (the exception is swallowed).
get_image_info(data) ==
    IF data = PngPayload THEN [ format |-> "PNG" ] ELSE [ format |-> Null ]

\* str(b) of a bytes value.
PyStrBytes(b) == "b'" \o b \o "'"

\* hashlib.md5(data).hexdigest(): a digest that is a function of the bytes.
RECURSIVE compute_hash(_)
compute_hash(data) ==
    IF data = <<>> THEN "md5"
    ELSE compute_hash(SubSeq(data, 1, Len(data) - 1)) \o "-" \o ToString(data[Len(data)])

\* ','.join(names)
RECURSIVE Join(_)
Join(names) ==
    IF names = <<>> THEN ""
    ELSE IF Len(names) = 1 THEN names[1]
    ELSE names[1] \o "," \o Join(Tail(names))

\* Python truthiness of an optional list: None and [] are false.
Truthy(list) == list # NoneOpt /\ list[1] # <<>>

\* Lines 225-230 without the `len(data) == 0` test: only a missing
\* payload is skipped.
SkipOnlyMissing(raw) == raw.data = NoneOpt

\* parse_thumbcache_file skips an entry whose data is None or empty.
SkipEntry(raw) == raw.data = NoneOpt \/ Len(raw.data[1]) = 0

\* The ThumbnailEntry parse_thumbcache_file yields for a raw entry of `file`
\* (no thumbcache_idx.db in the directory: index_data is empty, and
\* last_modified stays None).
ThumbnailEntry(file, raw) ==
    LET data == raw.data[1]
        cache_key ==
            IF raw.identifier # Null THEN raw.identifier
            ELSE IF raw.hash # NoAttr THEN PyStrBytes(raw.hash)
            ELSE "unknown"
        entry_hash == IF raw.hash # NoAttr THEN PyStrBytes(raw.hash) ELSE Null
        extension == IF "extension" \in DOMAIN raw THEN raw.extension ELSE Null
    IN  [ cache_file    |-> file,
          cache_key     |-> cache_key,
          data          |-> data,
          data_size     |-> Len(data),
          hash          |-> compute_hash(data),
          cache_size    |-> CacheSizeOf[file],
          entry_hash    |-> entry_hash,
          extension     |-> extension,
          image_format  |-> get_image_info(data).format,
          last_modified |-> Null ]

\* Every ThumbnailEntry a caller can hold.
Entries ==
    { ThumbnailEntry(f, raw) : f \in DiskNames, raw \in { r \in RawEntries : ~SkipEntry(r) } }

(* ------------------------------ storage ------------------------------- *)

\* The row that holds an entry's fields under a row id, inserted at time `at`.
RowAt(id, e, at) ==
    [ id            |-> id,
      cache_file    |-> e.cache_file,
      cache_key     |-> e.cache_key,
      cache_size    |-> e.cache_size,
      data_size     |-> e.data_size,
      hash          |-> e.hash,
      data          |-> e.data,
      entry_hash    |-> e.entry_hash,
      extension     |-> e.extension,
      image_format  |-> e.image_format,
      last_modified |-> e.last_modified,
      indexed_at    |-> at ]

\* The row INSERT stores for an entry under a row id; indexed_at defaults to
\* CURRENT_TIMESTAMP.
Row(id, e) == RowAt(id, e, now)

\* The entry fields of a row (all columns but id and indexed_at).
Fields(r) ==
    [ cache_file    |-> r.cache_file,
      cache_key     |-> r.cache_key,
      data          |-> r.data,
      data_size     |-> r.data_size,
      hash          |-> r.hash,
      cache_size    |-> r.cache_size,
      entry_hash    |-> r.entry_hash,
      extension     |-> r.extension,
      image_format  |-> r.image_format,
      last_modified |-> r.last_modified ]

SameKey(r, e) == r.cache_file = e.cache_file /\ r.cache_key = e.cache_key

MaxRowId(rows) ==
    IF rows = {} THEN 0
    ELSE CHOOSE m \in { r.id : r \in rows } : \A r \in rows : r.id <= m

\* id INTEGER PRIMARY KEY, without AUTOINCREMENT: one more than the largest
\* row id now in the table.
RowIdNoAutoincrement(rows, seq) == MaxRowId(rows) + 1

\* id INTEGER PRIMARY KEY AUTOINCREMENT: one more than the largest row id the
\* table has ever held (sqlite_sequence) or holds now.
NextRowId(rows, seq) ==
    (IF MaxRowId(rows) > seq THEN MaxRowId(rows) ELSE seq) + 1

\* A plain INSERT with no UNIQUE(cache_file, cache_key) conflict handling.
InsertNoConflict(rows, id, e) == rows \cup { Row(id, e) }

\* An upsert that writes the new fields over the conflicting row but leaves
\* its payload as it was.
ReplaceKeepingData(rows, id, e) ==
    { r \in rows : ~SameKey(r, e) }
    \cup { IF \E old \in rows : SameKey(old, e)
           THEN [ Row(id, e) EXCEPT !.data = (CHOOSE old \in rows : SameKey(old, e)).data ]
           ELSE Row(id, e) }

\* INSERT OR REPLACE under UNIQUE(cache_file, cache_key): the conflicting row
\* is deleted and the new row inserted.
InsertOrReplace(rows, id, e) ==
    { r \in rows : ~SameKey(r, e) } \cup { Row(id, e) }

\* DELETE FROM thumbnails (every row), whatever the scope.
DeleteAll(rows, names) == {}

\* DELETE FROM thumbnails WHERE cache_file IN (names)
DeleteIn(rows, names) == { r \in rows : r.cache_file \notin Range(names) }

EmptyMetadata == [ k \in MetaKeys |-> Null ]

\* INSERT OR REPLACE INTO metadata (key, value)
SetMeta(meta, key, value) == [ meta EXCEPT ![key] = value ]

\* SELECT ... FROM thumbnails WHERE id = ?  (the set of matching rows)
get_thumbnail_by_id(rows, id) == { r \in rows : r.id = id }

(* ------------------------------- queries ------------------------------ *)

\* An optional text argument is given (Python truthiness: neither None
\* nor '').
Given(v) == v # Null /\ v # ""

\* SQLite's `s LIKE pat` for non-NULL texts: % matches any run of
\* characters, _ any one character, and ASCII letters match in either case.
RECURSIVE Like(_, _)
Like(s, pat) ==
    IF Len(pat) = 0 THEN Len(s) = 0
    ELSE LET p == CharAt(pat, 1)
             rest == SubSeq(pat, 2, Len(pat))
         IN  IF p = "%"
             THEN \E i \in 0..Len(s) : Like(SubSeq(s, i + 1, Len(s)), rest)
             ELSE /\ Len(s) > 0
                  /\ (p = "_" \/ LowerChar(p) = LowerChar(CharAt(s, 1)))
                  /\ Like(SubSeq(s, 2, Len(s)), rest)

\* column LIKE '%term%': NULL columns match nothing.
ColumnLike(v, term) == v # Null /\ Like(v, "%" \o term \o "%")

\* The WHERE clause get_thumbnails builds from its arguments, on one row.
where_clause(r, a) ==
    /\ Given(a.cache_size) => r.cache_size = a.cache_size
    /\ Given(a.image_format) => r.image_format = a.image_format
    /\ Given(a.extension) => ColumnLike(r.extension, a.extension)
    /\ Truthy(a.cache_files) => r.cache_file \in Range(a.cache_files[1])
    /\ Given(a.search) =>
         \/ ColumnLike(r.hash, a.search)
         \/ ColumnLike(r.cache_key, a.search)
         \/ ColumnLike(r.entry_hash, a.search)
         \/ ColumnLike(r.extension, a.search)

sort_mapping ==
    [ newest   |-> "indexed_at DESC",
      oldest   |-> "indexed_at ASC",
      largest  |-> "data_size DESC",
      smallest |-> "data_size ASC",
      modified |-> "last_modified DESC NULLS LAST" ]

\* sort_mapping.get(sort, "indexed_at DESC")
order_clause(sort) ==
    IF sort \in DOMAIN sort_mapping THEN sort_mapping[sort] ELSE "indexed_at DESC"

\* The characters of the timestamps, in their byte order.
TextAlphabet == "-0123456789:T"

CharRank(c) == CHOOSE i \in 1..Len(TextAlphabet) : CharAt(TextAlphabet, i) = c

\* SQLite's comparison of two TEXT values (BINARY collation): a < b.
RECURSIVE TextLess(_, _)
TextLess(a, b) ==
    IF Len(b) = 0 THEN FALSE
    ELSE IF Len(a) = 0 THEN TRUE
    ELSE IF CharAt(a, 1) = CharAt(b, 1)
         THEN TextLess(SubSeq(a, 2, Len(a)), SubSeq(b, 2, Len(b)))
         ELSE CharRank(CharAt(a, 1)) < CharRank(CharAt(b, 1))

\* Row r1 sorts strictly before row r2 under the ORDER BY clause.
Before(r1, r2, clause) ==
    CASE clause = "indexed_at DESC" -> r1.indexed_at > r2.indexed_at
      [] clause = "indexed_at ASC" -> r1.indexed_at < r2.indexed_at
      [] clause = "data_size DESC" -> r1.data_size > r2.data_size
      [] clause = "data_size ASC" -> r1.data_size < r2.data_size
      [] clause = "last_modified DESC NULLS LAST" ->
            \/ r1.last_modified # Null /\ r2.last_modified = Null
            \/ /\ r1.last_modified # Null
               /\ r2.last_modified # Null
               /\ TextLess(r2.last_modified, r1.last_modified)

\* Where SQLite's scan comes to the row of this id: rows the scan order
\* does not name come last, by id.
ScanPos(id) ==
    IF \E i \in 1..Len(scan) : scan[i] = id
    THEN CHOOSE i \in 1..Len(scan) : scan[i] = id
    ELSE Len(scan) + id

\* r1 comes out before r2: by the ORDER BY key, and among rows of equal key
\* (whose order SQL leaves open) in the order of the scan.
Earlier(r1, r2, clause) ==
    \/ Before(r1, r2, clause)
    \/ ~Before(r2, r1, clause) /\ ScanPos(r1.id) < ScanPos(r2.id)

\* No ORDER BY: the rows in the order of the scan.
RECURSIVE ScanOrder(_, _)
ScanOrder(rows, clause) ==
    IF rows = {} THEN << >>
    ELSE LET first == CHOOSE r \in rows :
                        \A o \in rows \ {r} : ScanPos(r.id) < ScanPos(o.id)
         IN  << first >> \o ScanOrder(rows \ {first}, clause)

\* SELECT ... ORDER BY clause
RECURSIVE OrderBy(_, _)
OrderBy(rows, clause) ==
    IF rows = {} THEN << >>
    ELSE LET first == CHOOSE r \in rows :
                        \A o \in rows \ {r} : Earlier(r, o, clause)
         IN  << first >> \o OrderBy(rows \ {first}, clause)

\* The offset counted from page 0.
OffsetFromPageZero(page, per_page) == page * per_page

\* offset = (page - 1) * per_page
Offset(page, per_page) == (page - 1) * per_page

Min(a, b) == IF a < b THEN a ELSE b

\* LIMIT ? OFFSET ?: a negative limit is no limit, a negative offset is 0.
LimitOffset(seq, limit, offset) ==
    LET skip == IF offset < 0 THEN 0 ELSE offset
    IN  SubSeq(seq, skip + 1,
               IF limit < 0 THEN Len(seq) ELSE Min(skip + limit, Len(seq)))

\* The columns of the list view: every column but data.
Summary(r) == [ f \in DOMAIN r \ {"data"} |-> r[f] ]

\* SELECT COUNT(*) FROM thumbnails WHERE ...
CountMatching(rows, a) == Cardinality({ r \in rows : where_clause(r, a) })

\* SELECT ... FROM thumbnails WHERE ... ORDER BY ... LIMIT ? OFFSET ?
SelectPage(rows, a) ==
    LET sorted == OrderBy({ r \in rows : where_clause(r, a) }, order_clause(a.sort))
        page == LimitOffset(sorted, a.per_page, Offset(a.page, a.per_page))
    IN  [ i \in 1..Len(page) |-> Summary(page[i]) ]

\* Entries a store may hold for the queries: of both cache files, with and
\* without a decodable payload, an extension and a last_modified, and with
\* equal sizes and equal timestamps among them.
StoredEntryList ==
    << ThumbnailEntry("thumbcache_32.db",
                      [ identifier |-> "k1", hash |-> NoAttr, data |-> Some(<< 7 >>) ]),
       [ ThumbnailEntry("thumbcache_32.db",
                        [ identifier |-> Null, hash |-> "h1", data |-> Some(PngPayload) ])
           EXCEPT !.extension = ".jpg", !.last_modified = "2020-06-01T10:00:00" ],
       [ ThumbnailEntry("thumbcache_256.db",
                        [ identifier |-> "k1", hash |-> NoAttr, data |-> Some(PngPayload) ])
           EXCEPT !.extension = ".JPG", !.last_modified = "2021-06-01T10:00:00" ],
       [ ThumbnailEntry("thumbcache_256.db",
                        [ identifier |-> Null, hash |-> "h1", data |-> Some(<< 7 >>) ])
           EXCEPT !.last_modified = "2020-06-01T10:00:00" ] >>

\* The stores of up to MaxRows of these entries: row ids in the order of
\* insertion, and indexed_at (0 or 1) not decreasing with the row id.
QueryStores ==
    UNION { { { RowAt(Cardinality({ j \in picked : j <= k }), StoredEntryList[k],
                      at[Cardinality({ j \in picked : j <= k })]) : k \in picked } :
              at \in { a \in [ 1..Cardinality(picked) -> 0..1 ] :
                         \A i \in 1..(Cardinality(picked) - 1) : a[i] <= a[i + 1] } } :
            picked \in { q \in SUBSET (1..Len(StoredEntryList)) : Cardinality(q) <= MaxRows } }

\* The orders in which a scan may come to the rows of these ids.
ScanOrders(ids) ==
    { f \in [ 1..Cardinality(ids) -> ids ] :
        \A i, j \in 1..Cardinality(ids) : f[i] = f[j] => i = j }

\* get_thumbnails called with no filter.
NoFilters ==
    [ cache_size |-> Null, image_format |-> Null, extension |-> Null,
      cache_files |-> NoneOpt, search |-> Null ]

\* The filter arguments callers pass.
Filters ==
    { NoFilters,
      [ NoFilters EXCEPT !.cache_size = "32" ],
      [ NoFilters EXCEPT !.image_format = "PNG" ],
      [ NoFilters EXCEPT !.extension = "jpg" ],
      [ NoFilters EXCEPT !.cache_files = Some(<< "thumbcache_256.db" >>) ],
      [ NoFilters EXCEPT !.search = "" ],
      [ NoFilters EXCEPT !.search = "k" ],
      [ NoFilters EXCEPT !.search = "_" ],
      [ NoFilters EXCEPT !.cache_size = "32", !.search = "k" ],
      [ NoFilters EXCEPT !.extension = "jpg",
                         !.cache_files = Some(<< "thumbcache_256.db" >>) ],
      [ cache_size |-> "256", image_format |-> "PNG", extension |-> "jpg",
        cache_files |-> Some(<< "thumbcache_32.db", "thumbcache_256.db" >>),
        search |-> "K" ] }

Sorts == { "newest", "oldest", "largest", "smallest", "modified", "bogus" }

\* The first page of a query: filters, a sort value and a page size.
QueryArgs ==
    { [ page |-> 1, per_page |-> k, sort |-> srt,
        cache_size |-> f.cache_size, image_format |-> f.image_format,
        extension |-> f.extension, cache_files |-> f.cache_files,
        search |-> f.search ] : k \in 1..2, srt \in Sorts, f \in Filters }

(* ----------------------------- list views ----------------------------- *)

\* config.THUMBNAILS_PER_PAGE
THUMBNAILS_PER_PAGE == 50

\* request.args.get(name, default, type=int): the default where the
\* parameter is absent or is no integer.
ArgInt(param, default) == IF param.kind = "int" THEN param.value ELSE default

Max(a, b) == IF a > b THEN a ELSE b

\* min(max(1, per_page), 1000)
ClampPerPage(per_page) == Min(Max(1, per_page), 1000)

\* The per_page parameters requests carry: none, a text that is no number,
\* and numbers below, in and above the range.
PerPageParams ==
    { [ kind |-> "absent", value |-> 0 ], [ kind |-> "text", value |-> 0 ] }
    \cup { [ kind |-> "int", value |-> v ] : v \in { -1, 0, 1, 2, 1000, 1001 } }

\* The q parameters of /api/search, stripped.
SearchTerms == { "", "k", "jpg" }

(* ------------------------------- export ------------------------------- *)

\* config.MAX_EXPORT_COUNT
MAX_EXPORT_COUNT == 1000

\* SELECT data FROM thumbnails WHERE id = ?: row['data'] if row else None
get_thumbnail_data(rows, thumb_id) ==
    IF \E r \in rows : r.id = thumb_id
    THEN Some((CHOOSE r \in rows : r.id = thumb_id).data)
    ELSE NoneOpt

\* The rows in the order of their row ids.
RECURSIVE RowidOrder(_)
RowidOrder(rows) ==
    IF rows = {} THEN << >>
    ELSE LET first == CHOOSE r \in rows : \A o \in rows : r.id <= o.id
         IN  << first >> \o RowidOrder(rows \ {first})

\* One dict for every placeholder of the IN list that finds a row.
OneRowPerPlaceholder(rows, ids) ==
    LET found == SelectSeq(ids, LAMBDA i : \E r \in rows : r.id = i)
    IN  [ k \in 1..Len(found) |-> CHOOSE r \in rows : r.id = found[k] ]

\* get_thumbnails_by_ids: [] for an empty list, else the rows WHERE id IN
\* (...), data included.
get_thumbnails_by_ids(rows, ids) ==
    IF ids = << >> THEN << >>
    ELSE RowidOrder({ r \in rows : r.id \in Range(ids) })

\* img.save(output_buffer, format='PNG'): the image encoded anew, behind the
\* PNG signature.
PngEncode(data) == << 137 >> \o data

\* get_thumbnail_as_png: the image as PNG, or the original data where
\* Image.open fails.
get_thumbnail_as_png(data) ==
    IF get_image_info(data).format # Null THEN PngEncode(data) ELSE data

\* Not found also where the payload cannot be decoded.
ExportDecodedOnly(rows, thumb_id) ==
    LET data == get_thumbnail_data(rows, thumb_id)
    IN  IF data = NoneOpt \/ get_image_info(data[1]).format = Null THEN NoneOpt
        ELSE Some(get_thumbnail_as_png(data[1]))

\* export_single_thumbnail: None if not found, else the PNG data.
export_single_thumbnail(rows, thumb_id) ==
    LET data == get_thumbnail_data(rows, thumb_id)
    IN  IF data = NoneOpt THEN NoneOpt ELSE Some(get_thumbnail_as_png(data[1]))

\* thumb.get(key, default) on dict(row): every selected column is a key, a
\* NULL column has the value None.
DictGet(thumb, key, default) ==
    IF key \in DOMAIN thumb THEN thumb[key] ELSE default

\* f"{value}" of an optional text.
PyStr(v) == IF v = Null THEN "None" ELSE v

\* s.replace('.', '')
RECURSIVE RemoveDots(_)
RemoveDots(s) ==
    IF Len(s) = 0 THEN ""
    ELSE (IF CharAt(s, 1) = "." THEN "" ELSE CharAt(s, 1))
         \o RemoveDots(SubSeq(s, 2, Len(s)))

\* The name of a thumbnail's image in the archive.
full_path(thumb) ==
    LET cache_size == DictGet(thumb, "cache_size", "unknown")
        hash_prefix ==
            IF Given(DictGet(thumb, "hash", Null))
            THEN SubSeq(DictGet(thumb, "hash", "unknown"), 1,
                        Min(8, Len(DictGet(thumb, "hash", "unknown"))))
            ELSE "unknown"
        ext ==
            IF Given(DictGet(thumb, "extension", Null))
            THEN RemoveDots(DictGet(thumb, "extension", ""))
            ELSE ""
        folder == PyStr(cache_size)
        filename == ToString(thumb.id) \o "_" \o hash_prefix
                    \o (IF ext # "" THEN "_" \o ext ELSE "") \o ".png"
    IN  folder \o "/" \o filename

\* escape_csv of a value without comma, quote or newline: '' for None.
escape_csv(value) == IF value = Null THEN "" ELSE value

\* generate_export_metadata: the number of thumbnails and a block for each.
generate_export_metadata(thumbs) ==
    [ total  |-> Len(thumbs),
      blocks |-> [ i \in 1..Len(thumbs) |->
                     [ index        |-> i,
                       id           |-> thumbs[i].id,
                       data_size    |-> thumbs[i].data_size,
                       image_format |-> PyStr(thumbs[i].image_format),
                       extension    |-> PyStr(thumbs[i].extension),
                       cache_file   |-> PyStr(thumbs[i].cache_file),
                       cache_size   |-> PyStr(thumbs[i].cache_size),
                       cache_key    |-> PyStr(thumbs[i].cache_key),
                       hash         |-> PyStr(thumbs[i].hash) ] ] ]

\* generate_export_csv: a line for each thumbnail under the header.
generate_export_csv(thumbs) ==
    [ i \in 1..Len(thumbs) |->
        [ id           |-> ToString(thumbs[i].id),
          cache_file   |-> escape_csv(thumbs[i].cache_file),
          cache_key    |-> escape_csv(thumbs[i].cache_key),
          cache_size   |-> escape_csv(thumbs[i].cache_size),
          data_size    |-> ToString(thumbs[i].data_size),
          image_format |-> escape_csv(thumbs[i].image_format),
          extension    |-> escape_csv(thumbs[i].extension),
          hash         |-> escape_csv(thumbs[i].hash) ] ]

\* export_thumbnails_to_zip: the archive's members in the order written,
\* an image for every fetched row, then the two reports.
export_thumbnails_to_zip(rows, ids) ==
    LET thumbs == get_thumbnails_by_ids(rows, ids)
    IN  [ i \in 1..Len(thumbs) |->
            [ name |-> full_path(thumbs[i]), kind |-> "image",
              content |-> get_thumbnail_as_png(thumbs[i].data) ] ]
        \o << [ name |-> "metadata.txt", kind |-> "text",
                content |-> generate_export_metadata(thumbs) ],
              [ name |-> "metadata.csv", kind |-> "csv",
                content |-> generate_export_csv(thumbs) ] >>

\* The ceiling test with the ceiling itself refused.
CeilingExcluded(n) == n >= MAX_EXPORT_COUNT

\* len(ids) > config.MAX_EXPORT_COUNT
TooMany(n) == n > MAX_EXPORT_COUNT

\* The answer of the validation of /api/export, "" where the request passes.
ValidationError(req) ==
    IF req.kind = "missing" THEN "Missing \"ids\" in request body"
    ELSE IF req.kind # "list" \/ Len(req.ids) = 0 THEN "Invalid or empty \"ids\" list"
    ELSE IF TooMany(Len(req.ids)) THEN "Too many thumbnails. Maximum is 1000"
    ELSE ""

\* The entries an export finds in the store: decodable or not, with a hash
\* longer than 8 characters and an extension, and entries index_thumbnail
\* got without a cache_size or without a hash (both default to None).
ExportEntryList ==
    << [ ThumbnailEntry("thumbcache_32.db",
                        [ identifier |-> "k1", hash |-> NoAttr, data |-> Some(PngPayload) ])
           EXCEPT !.hash = "0123456789abcdef", !.extension = ".jpg" ],
       ThumbnailEntry("thumbcache_256.db",
                      [ identifier |-> Null, hash |-> "h1", data |-> Some(<< 7 >>) ]),
       [ ThumbnailEntry("thumbcache_32.db",
                        [ identifier |-> Null, hash |-> "h1", data |-> Some(PngPayload) ])
           EXCEPT !.cache_size = Null ],
       [ ThumbnailEntry("thumbcache_256.db",
                        [ identifier |-> "k1", hash |-> NoAttr, data |-> Some(<< 7 >>) ])
           EXCEPT !.hash = Null, !.extension = ".JPG" ] >>

\* The stores of up to MaxRows of these entries, row ids in the order of
\* insertion.
ExportStores ==
    { { RowAt(Cardinality({ j \in picked : j <= k }), ExportEntryList[k], 0) :
          k \in picked } :
      picked \in { q \in SUBSET (1..Len(ExportEntryList)) : Cardinality(q) <= MaxRows } }

\* The ids requests name: those of the rows a store can hold, and one more.
RequestIds == 1..(MaxRows + 1)

\* An id list of n ids, over all of RequestIds.
LongIds(n) == [ i \in 1..n |-> ((i - 1) % (MaxRows + 1)) + 1 ]

\* The bodies posted to /api/export: without "ids", with "ids" that is no
\* list, and with id lists: every list of up to MaxIds ids, and lists of
\* one fewer ids than the ceiling, of as many, and of one more.
Requests ==
    { [ kind |-> "missing", ids |-> << >> ], [ kind |-> "not_list", ids |-> << >> ] }
    \cup { [ kind |-> "list", ids |-> l ] :
             l \in UNION { [ 1..n -> RequestIds ] : n \in 0..MaxIds } }
    \cup { [ kind |-> "list", ids |-> LongIds(n) ] :
             n \in (MAX_EXPORT_COUNT - 1)..(MAX_EXPORT_COUNT + 1) }

(* -------------------------------- stats ------------------------------- *)

\* SELECT col, COUNT(*) FROM ... GROUP BY col, as the dict the rows make:
\* a key for every value of the column (None for NULL), with its count.
GroupCount(rows, col) ==
    [ v \in { r[col] : r \in rows } |-> Cardinality({ r \in rows : r[col] = v }) ]

\* SELECT SUM(data_size): NULL over no rows.
RECURSIVE SumDataSize(_)
SumDataSize(rows) ==
    IF rows = {} THEN 0
    ELSE LET r == CHOOSE x \in rows : TRUE
         IN  r.data_size + SumDataSize(rows \ {r})

\* WHERE extension IS NOT NULL, without the test for ''.
ExtensionNotNull(r) == r.extension # Null

\* WHERE extension IS NOT NULL AND extension != ''
HasExtension(r) == r.extension # Null /\ r.extension # ""

\* get_stats: the counts, the total size (`or 0` for the NULL sum) and
\* last_indexed.
get_stats(rows, meta) ==
    LET sum == IF rows = {} THEN NoneOpt ELSE Some(SumDataSize(rows))
    IN  [ total_thumbnails      |-> Cardinality(rows),
          by_cache_size         |-> GroupCount(rows, "cache_size"),
          by_cache_file         |-> GroupCount(rows, "cache_file"),
          by_image_format       |-> GroupCount({ r \in rows : r.image_format # Null },
                                               "image_format"),
          by_extension          |-> GroupCount({ r \in rows : HasExtension(r) },
                                               "extension"),
          total_data_size_bytes |-> IF sum = NoneOpt \/ sum[1] = 0 THEN 0 ELSE sum[1],
          last_indexed          |-> meta["last_indexed"] ]

\* The stores whose statistics are asked for: those of the queries and of
\* the exports, and the latter with the empty text as the extension of their
\* first row.
StatsStores ==
    QueryStores \cup ExportStores
    \cup { { IF r.id = 1 THEN [ r EXCEPT !.extension = "" ] ELSE r : r \in st } :
           st \in ExportStores }

(* --------------------------- state tuples ----------------------------- *)

db == << thumbnails, metadata, sqlite_sequence >>

locals == << op, scope, entry, files, pos, count, ret, exc >>

history == << calls, removed, issued, seen, yielded, failedFiles >>

\* The get_thumbnails call in hand and what the caller has of it.
query == << args, total, listed, pages >>

\* The export request in hand and its answer.
export == << request, response, storeCalls >>

\* What the store's writers neither read nor write, or only read.
singleton == << _db_instance, constructed >>

naming == << cache_name, cache_code >>

others ==
    << DISSECT_AVAILABLE, now, scan, progress_callback, singleton, naming, query, export >>

vars == << others, progress, db, tx, pc, locals, history >>

\* get_db() has made the process's ThumbnailDatabase.
Constructed == _db_instance = Some(1) /\ constructed = 1

\* No call of get_cache_size_from_filename is in hand.
NoName == cache_name = NoneOpt /\ cache_code = NoneOpt

\* The database ThumbnailDatabase() finds where none was: both tables
\* empty, no row id ever given, no transaction open.
EmptyStore ==
    /\ thumbnails = {}
    /\ metadata = EmptyMetadata
    /\ sqlite_sequence = 0
    /\ tx = {}
    /\ now = 0

\* No thread is in a call, and no history has been recorded.
ThreadsIdle ==
    /\ pc = [ t \in Threads |-> "idle" ]
    /\ op = [ t \in Threads |-> "none" ]
    /\ scope = [ t \in Threads |-> NoneOpt ]
    /\ entry = [ t \in Threads |-> NoneOpt ]
    /\ files = [ t \in Threads |-> <<>> ]
    /\ pos = [ t \in Threads |-> 0 ]
    /\ count = [ t \in Threads |-> 0 ]
    /\ ret = [ t \in Threads |-> -1 ]
    /\ exc = [ t \in Threads |-> Null ]
    /\ calls = 0
    /\ removed = [ t \in Threads |-> {} ]
    /\ issued = <<>>
    /\ seen = [ t \in Threads |-> 0 ]
    /\ yielded = [ t \in Threads |-> {} ]
    /\ failedFiles = [ t \in Threads |-> {} ]
    /\ progress = << >>

\* No get_thumbnails call has been made.
NoQuery ==
    /\ args = NoneOpt
    /\ total = -1
    /\ listed = << >>
    /\ pages = << >>

\* No export request has been made.
NoExport ==
    /\ request = NoneOpt
    /\ response = NoneOpt
    /\ storeCalls = 0

\* The callers of the repository (app.py:259, indexer.py:499) pass no
\* progress callback.
Init ==
    /\ Constructed
    /\ NoName
    /\ DISSECT_AVAILABLE \in BOOLEAN
    /\ EmptyStore
    /\ ThreadsIdle
    /\ progress_callback = FALSE
    /\ scan = << >>
    /\ NoQuery
    /\ NoExport

(* --------------------------- thread helpers --------------------------- *)

\* A per-thread history variable takes a new value where the specification
\* keeps histories (h), and stays as it is where it does not.
Record(h, hist, t, value) ==
    hist' = IF h THEN [ hist EXCEPT ![t] = value ] ELSE hist

Goto(t, label) == pc' = [ pc EXCEPT ![t] = label ]

\* The exception leaves the public method: the caller sees it raised.
Raise(t, e) ==
    /\ pc' = [ pc EXCEPT ![t] = "raised" ]
    /\ exc' = [ exc EXCEPT ![t] = e ]

\* Another connection holds the write lock.
LockedByOther(t) == \E w \in tx : w.owner # t

\* The thread's connection has a write transaction open.
InTx(t) == \E w \in tx : w.owner = t

(* --------------------------- public methods --------------------------- *)

\* A caller invokes clear_index(cache_files).
CallClearIndex(t, budget) ==
    /\ pc[t] = "idle"
    /\ calls < budget
    /\ calls' = calls + 1
    /\ \E sc \in Scopes : scope' = [ scope EXCEPT ![t] = sc ]
    /\ op' = [ op EXCEPT ![t] = "clear_index" ]
    /\ Goto(t, "clear")
    /\ UNCHANGED << others, progress, db, tx, entry, files, pos, count, ret, exc, removed, issued, seen, yielded, failedFiles >>

\* A caller invokes index_thumbnail(entry).
CallIndexThumbnail(t, budget) ==
    /\ pc[t] = "idle"
    /\ calls < budget
    /\ calls' = calls + 1
    /\ \E e \in Entries : entry' = [ entry EXCEPT ![t] = Some(e) ]
    /\ op' = [ op EXCEPT ![t] = "index_thumbnail" ]
    /\ Goto(t, "upsert")
    /\ UNCHANGED << others, progress, db, tx, scope, files, pos, count, ret, exc, removed, issued, seen, yielded, failedFiles >>

\* A caller invokes index_all(selected_files=...).
CallIndexAll(t, budget) ==
    /\ pc[t] = "idle"
    /\ calls < budget
    /\ calls' = calls + 1
    /\ \E sc \in Scopes : scope' = [ scope EXCEPT ![t] = sc ]
    /\ op' = [ op EXCEPT ![t] = "index_all" ]
    /\ Goto(t, "clear")
    /\ UNCHANGED << others, progress, db, tx, entry, files, pos, count, ret, exc, removed, issued, seen, yielded, failedFiles >>

(* ----------------------------- clear_index ---------------------------- *)

\* Where control goes when clear_index returns: to index_all's loop, or back
\* to the caller.
AfterClear(t) == IF op[t] = "index_all" THEN "iter_start" ELSE "returned"

\* The scoped DELETE mutated to the unscoped branch's two statements.
ScopedDeleteEverything(t) ==
    /\ thumbnails' = DeleteAll(thumbnails, scope[t][1])
    /\ metadata' = EmptyMetadata
    /\ UNCHANGED sqlite_sequence

\* if cache_files: DELETE FROM thumbnails WHERE cache_file IN (...)
ScopedDelete(t) ==
    /\ thumbnails' = DeleteIn(thumbnails, scope[t][1])
    /\ UNCHANGED << metadata, sqlite_sequence >>

\* clear_index with a non-empty list: one DELETE, then commit.
clear_index_scoped(t, h) ==
    /\ pc[t] = "clear"
    /\ Truthy(scope[t])
    /\ tx = {}
    /\ ScopedDelete(t)
    /\ Record(h, removed, t, thumbnails \ thumbnails')
    /\ Goto(t, AfterClear(t))
    /\ UNCHANGED << others, progress, tx, locals, calls, issued, seen, yielded,
                    failedFiles >>

\* The first DELETE run in autocommit mode: committed at once.
DeleteThumbnailsAutocommit(t) ==
    /\ tx = {}
    /\ tx' = { [ owner |-> t, thumbnails |-> {}, metadata |-> metadata ] }
    /\ thumbnails' = {}
    /\ UNCHANGED << metadata, sqlite_sequence >>

\* else: DELETE FROM thumbnails. The connection opens a transaction before the
\* statement; its effect stays in the connection until commit.
DeleteThumbnailsInTx(t) ==
    /\ tx = {}
    /\ tx' = { [ owner |-> t, thumbnails |-> {}, metadata |-> metadata ] }
    /\ UNCHANGED db

\* clear_index with None or an empty list, first statement.
clear_index_delete_thumbnails(t) ==
    /\ pc[t] = "clear"
    /\ ~Truthy(scope[t])
    /\ DeleteThumbnailsInTx(t)
    /\ Goto(t, "clear_metadata")
    /\ UNCHANGED << others, progress, locals, history >>

\* DELETE FROM metadata, in the same transaction.
clear_index_delete_metadata(t) ==
    /\ pc[t] = "clear_metadata"
    /\ InTx(t)
    /\ tx' = { [ w EXCEPT !.metadata = EmptyMetadata ] : w \in tx }
    /\ Goto(t, "clear_commit")
    /\ UNCHANGED << others, progress, db, locals, history >>

\* _cursor: self._connection.commit() publishes the transaction.
clear_index_commit(t, h) ==
    /\ pc[t] = "clear_commit"
    /\ \E w \in tx :
        /\ w.owner = t
        /\ thumbnails' = w.thumbnails
        /\ metadata' = w.metadata
    /\ tx' = {}
    /\ Record(h, removed, t, thumbnails \ thumbnails')
    /\ Goto(t, AfterClear(t))
    /\ UNCHANGED << others, progress, sqlite_sequence, locals, calls, issued, seen,
                    yielded, failedFiles >>

(* --------------------------- index_thumbnail -------------------------- *)

\* INSERT OR REPLACE INTO thumbnails ..., commit; cursor.lastrowid is the new
\* row's id.
Upsert(t, e) ==
    LET id == NextRowId(thumbnails, sqlite_sequence)
    IN  /\ tx = {}
        /\ sqlite_sequence < MaxSeq
        /\ thumbnails' = InsertOrReplace(thumbnails, id, e)
        /\ sqlite_sequence' = id
        /\ issued' = Append(issued, id)
        /\ UNCHANGED metadata

\* index_thumbnail called by a caller of the store.
index_thumbnail(t, h) ==
    /\ pc[t] = "upsert"
    /\ Upsert(t, entry[t][1])
    /\ ret' = [ ret EXCEPT ![t] = sqlite_sequence' ]
    /\ Record(h, removed, t, { r \in thumbnails : SameKey(r, entry[t][1]) })
    /\ Goto(t, "returned")
    /\ UNCHANGED << others, progress, tx, op, scope, entry, files, pos, count, exc,
                    calls, seen, yielded, failedFiles >>

(* ------------------------------ index_all ----------------------------- *)

\* find_cache_files: the configured names that exist in the directory, in the
\* configured order (every name of DiskNames is a configured one).
find_cache_files(existing) == SelectSeq(THUMBCACHE_FILES, LAMBDA f : f \in existing)

\* The selected_files filter left out: every cache file is parsed.
NoFilter(cache_files, selected) == cache_files

\* if selected_files is not None: keep the files whose name is in the list.
FilterSelected(cache_files, selected) ==
    IF selected # NoneOpt
    THEN SelectSeq(cache_files, LAMBDA f : f \in Range(selected[1]))
    ELSE cache_files

\* The decoder's entry has a payload of at least one byte.
NonEmptyPayload(raw) == raw.data # NoneOpt /\ raw.data[1] # <<>>

\* datetime.now().isoformat(): the clock's reading, as text.
NowIso == "2026-01-01T00:00:00"

\* Where index_all is once the generator has `rest` left to parse: in the
\* loop, or past it (StopIteration) at the first metadata write.
LoopOrDone(rest) == IF rest = <<>> THEN "set_last_indexed" ELSE "parse"

\* The generator has finished with the current file.
NextFile(t) ==
    /\ files' = [ files EXCEPT ![t] = Tail(files[t]) ]
    /\ pos' = [ pos EXCEPT ![t] = 0 ]
    /\ Goto(t, LoopOrDone(Tail(files[t])))

\* The first next() on parse_all_thumbcaches with the decoder missing.
parse_all_unavailable(t) ==
    /\ pc[t] = "iter_start"
    /\ ~DISSECT_AVAILABLE
    /\ Raise(t, "ImportError")
    /\ UNCHANGED << others, progress, db, tx, op, scope, entry, files, pos, count, ret,
                    history >>

\* The first next() on parse_all_thumbcaches: the files to parse.
parse_all_start(t) ==
    /\ pc[t] = "iter_start"
    /\ DISSECT_AVAILABLE
    /\ files' = [ files EXCEPT ![t] = FilterSelected(find_cache_files(DiskNames), scope[t]) ]
    /\ Goto(t, LoopOrDone(files'[t]))
    /\ UNCHANGED << others, progress, db, tx, op, scope, entry, pos, count, ret, exc,
                    history >>

\* The cadence of the progress callback (count % 100).
ProgressEvery == 100

\* The callback called after every entry, whatever the count.
ReportEveryEntry(current) ==
    progress' = IF progress_callback
                THEN Append(progress, << current, NoneOpt >>)
                ELSE progress

\* if progress_callback and count % 100 == 0: progress_callback(count, None)
ReportProgress(current) ==
    progress' = IF progress_callback /\ current % ProgressEvery = 0
                THEN Append(progress, << current, NoneOpt >>)
                ELSE progress

\* One entry of the current file: skipped, or yielded to index_all, which
\* upserts it and counts it.
parse_entry(t, h) ==
    /\ pc[t] = "parse"
    /\ pos[t] < MaxEntries
    /\ \E raw \in RawEntries :
        /\ Record(h, seen, t, seen[t] + (IF NonEmptyPayload(raw) THEN 1 ELSE 0))
        /\ IF SkipEntry(raw)
           THEN UNCHANGED << db, count, issued, yielded, progress >>
           ELSE LET e == ThumbnailEntry(Head(files[t]), raw)
                IN  /\ Upsert(t, e)
                    /\ count' = [ count EXCEPT ![t] = count[t] + 1 ]
                    /\ ReportProgress(count[t] + 1)
                    /\ Record(h, yielded, t,
                              yielded[t] \cup { << e.cache_file, e.cache_key >> })
    /\ pos' = [ pos EXCEPT ![t] = pos[t] + 1 ]
    /\ UNCHANGED << others, tx, pc, op, scope, entry, files, ret, exc,
                    calls, removed, failedFiles >>

\* What the decoder yields for each entry of a long cache file.
LongFileEntries == { r \in RawEntries : r.identifier = "k1" /\ r.data = Some(<< 7 >>) }

\* The same loop body (lines 205-210) for an entry of a cache file of up to
\* MaxCount entries: upsert, count, report progress. No history is kept.
index_all_entry(t) ==
    /\ pc[t] = "parse"
    /\ count[t] < MaxCount
    /\ tx = {}
    /\ \E raw \in LongFileEntries :
         LET e == ThumbnailEntry(Head(files[t]), raw)
             id == NextRowId(thumbnails, sqlite_sequence)
         IN  /\ thumbnails' = InsertOrReplace(thumbnails, id, e)
             /\ sqlite_sequence' = id
    /\ count' = [ count EXCEPT ![t] = count[t] + 1 ]
    /\ ReportProgress(count[t] + 1)
    /\ UNCHANGED << others, metadata, tx, pc, op, scope, entry, files, pos, ret, exc,
                    history >>

\* parse_thumbcache_file without its try/except: the error leaves the
\* generator and index_all.
DecodeErrorPropagates(t) ==
    /\ Raise(t, "DecodeError")
    /\ UNCHANGED << files, pos >>

\* except Exception: print, return. The generator goes on to the next file.
DecodeErrorCaught(t) ==
    /\ NextFile(t)
    /\ UNCHANGED exc

\* Opening the current file, or reading its next entry, fails.
parse_file_error(t, h) ==
    /\ pc[t] = "parse"
    /\ DecodeErrorCaught(t)
    /\ Record(h, failedFiles, t, failedFiles[t] \cup { Head(files[t]) })
    /\ UNCHANGED << others, progress, db, tx, op, scope, entry, count, ret,
                    calls, removed, issued, seen, yielded >>

\* The current file has no more entries.
parse_file_end(t) ==
    /\ pc[t] = "parse"
    /\ NextFile(t)
    /\ UNCHANGED << others, progress, db, tx, op, scope, entry, count, ret, exc,
                    calls, removed, issued, seen, yielded, failedFiles >>

\* _set_metadata(key, value): one INSERT OR REPLACE, then commit.
_set_metadata(key, value) ==
    /\ tx = {}
    /\ metadata' = SetMeta(metadata, key, value)
    /\ UNCHANGED << thumbnails, sqlite_sequence >>

set_last_indexed(t) ==
    /\ pc[t] = "set_last_indexed"
    /\ _set_metadata("last_indexed", NowIso)
    /\ Goto(t, "set_thumbnail_count")
    /\ UNCHANGED << others, progress, tx, locals, history >>

\* index_all without line 214: the count is not written.
NoThumbnailCount(t) ==
    /\ pc[t] = "set_thumbnail_count"
    /\ tx = {}
    /\ Goto(t, "set_selected_files")
    /\ UNCHANGED << others, progress, db, tx, locals, history >>

set_thumbnail_count(t) ==
    /\ pc[t] = "set_thumbnail_count"
    /\ _set_metadata("thumbnail_count", ToString(count[t]))
    /\ Goto(t, "set_selected_files")
    /\ UNCHANGED << others, progress, tx, locals, history >>

\* The last write, then return count.
set_selected_files(t) ==
    /\ pc[t] = "set_selected_files"
    /\ _set_metadata("selected_files",
                     IF scope[t] # NoneOpt THEN Join(scope[t][1]) ELSE "")
    /\ ret' = [ ret EXCEPT ![t] = count[t] ]
    /\ Goto(t, "returned")
    /\ UNCHANGED << others, progress, tx, op, scope, entry, files, pos, count, exc,
                    history >>

(* ------------------------- failures and return ------------------------ *)

\* Where a statement or a commit is about to run on the thread's connection.
AtStorage(t) ==
    \/ pc[t] \in { "clear", "clear_metadata", "clear_commit", "upsert",
                   "set_last_indexed", "set_thumbnail_count", "set_selected_files" }
    \/ pc[t] = "parse" /\ pos[t] < MaxEntries

\* The failure with the transaction's work published instead of rolled back.
FailureKeepsWork(t) ==
    /\ AtStorage(t)
    /\ IF InTx(t)
       THEN \E w \in tx :
              /\ w.owner = t
              /\ thumbnails' = w.thumbnails
              /\ metadata' = w.metadata
       ELSE UNCHANGED << thumbnails, metadata >>
    /\ tx' = { w \in tx : w.owner # t }
    /\ Raise(t, "OperationalError")
    /\ UNCHANGED << others, progress, sqlite_sequence, op, scope, entry, files, pos,
                    count, ret, history >>

\* The failure with the whole index_all pass undone: the rows it has
\* upserted are gone as well.
FailureUndoesPass(t) ==
    /\ AtStorage(t)
    /\ tx' = { w \in tx : w.owner # t }
    /\ Raise(t, "OperationalError")
    /\ thumbnails' = IF op[t] = "index_all" THEN {} ELSE thumbnails
    /\ UNCHANGED << others, progress, metadata, sqlite_sequence, op, scope, entry,
                    files, pos, count, ret, history >>

\* _cursor: except Exception: rollback; raise. The statement or the commit
\* fails (an I/O error, or "database is locked" after the busy timeout).
storage_failure(t) ==
    /\ AtStorage(t)
    /\ tx' = { w \in tx : w.owner # t }
    /\ Raise(t, "OperationalError")
    /\ UNCHANGED << others, progress, db, op, scope, entry, files, pos, count, ret,
                    history >>

\* The caller takes the result (or the exception); the thread is free again.
Return(t) ==
    /\ pc[t] \in { "returned", "raised" }
    /\ Goto(t, "idle")
    /\ op' = [ op EXCEPT ![t] = "none" ]
    /\ scope' = [ scope EXCEPT ![t] = NoneOpt ]
    /\ entry' = [ entry EXCEPT ![t] = NoneOpt ]
    /\ files' = [ files EXCEPT ![t] = <<>> ]
    /\ pos' = [ pos EXCEPT ![t] = 0 ]
    /\ count' = [ count EXCEPT ![t] = 0 ]
    /\ ret' = [ ret EXCEPT ![t] = -1 ]
    /\ exc' = [ exc EXCEPT ![t] = Null ]
    /\ removed' = [ removed EXCEPT ![t] = {} ]
    /\ seen' = [ seen EXCEPT ![t] = 0 ]
    /\ yielded' = [ yielded EXCEPT ![t] = {} ]
    /\ failedFiles' = [ failedFiles EXCEPT ![t] = {} ]
    /\ UNCHANGED << others, progress, db, tx, calls, issued >>

(* --------------------------- get_thumbnails --------------------------- *)

\* A caller invokes get_thumbnails: the first page of a query, or the next
\* page of the query it is paging through (as long as pages come back
\* non-empty).
CallGetThumbnails(t, choices) ==
    /\ pc[t] = "idle"
    /\ IF args = NoneOpt
       THEN \E a \in choices : args' = Some(a)
       ELSE /\ listed # << >>
            /\ args' = Some([ args[1] EXCEPT !.page = @ + 1 ])
    /\ op' = [ op EXCEPT ![t] = "get_thumbnails" ]
    /\ Goto(t, "count")
    /\ UNCHANGED << DISSECT_AVAILABLE, now, scan, progress_callback, singleton, naming, export, progress,
                    db, tx, scope, entry, files, pos, count, ret, exc, history,
                    total, listed, pages >>

\* The first `with self._cursor()`: SELECT COUNT(*), then commit.
get_thumbnails_count(t) ==
    /\ pc[t] = "count"
    /\ total' = CountMatching(thumbnails, args[1])
    /\ Goto(t, "page")
    /\ UNCHANGED << DISSECT_AVAILABLE, now, scan, progress_callback, singleton, naming, export, progress,
                    db, tx, locals, history, args, listed, pages >>

\* The second `with self._cursor()`: the page's rows, then commit; return
\* (thumbnails, total).
get_thumbnails_page(t) ==
    /\ pc[t] = "page"
    /\ listed' = SelectPage(thumbnails, args[1])
    /\ pages' = Append(pages, [ i \in 1..Len(listed') |-> listed'[i].id ])
    /\ Goto(t, "returned")
    /\ UNCHANGED << DISSECT_AVAILABLE, now, scan, progress_callback, singleton, naming, export, progress,
                    db, tx, locals, history, args, total >>

(* ------------------ GET /api/thumbnails, /api/search ------------------ *)

\* The handler calls db.get_thumbnails(**a).
CallStoreQuery(t, a) ==
    /\ args' = Some(a)
    /\ total' = -1
    /\ listed' = << >>
    /\ pages' = << >>
    /\ Goto(t, "count")

\* /api/thumbnails up to its call of db.get_thumbnails: per_page is clamped
\* to 1..1000.
api_get_thumbnails(t) ==
    /\ pc[t] = "idle"
    /\ op' = [ op EXCEPT ![t] = "get_thumbnails" ]
    /\ \E param \in PerPageParams, srt \in { "newest", "largest" } :
         LET per_page == ArgInt(param, THUMBNAILS_PER_PAGE)
         IN  CallStoreQuery(t, [ page |-> 1, per_page |-> ClampPerPage(per_page),
                                 sort |-> srt,
                                 cache_size |-> Null, image_format |-> Null,
                                 extension |-> Null, cache_files |-> NoneOpt,
                                 search |-> Null ])
    /\ UNCHANGED << DISSECT_AVAILABLE, now, scan, progress_callback, singleton, naming, export, progress,
                    db, tx, scope, entry, files, pos, count, ret, exc, history >>

\* /api/search up to its call of db.get_thumbnails: an empty q is answered
\* without a query, any other with get_thumbnails(page, per_page, search=q).
search_thumbnails(t) ==
    /\ pc[t] = "idle"
    /\ op' = [ op EXCEPT ![t] = "get_thumbnails" ]
    /\ \E param \in PerPageParams, q \in SearchTerms :
         LET per_page == ArgInt(param, THUMBNAILS_PER_PAGE)
         IN  IF q = ""
             THEN /\ args' = NoneOpt
                  /\ total' = 0
                  /\ listed' = << >>
                  /\ pages' = << >>
                  /\ Goto(t, "returned")
             ELSE CallStoreQuery(t, [ page |-> 1, per_page |-> per_page,
                                      sort |-> "newest",
                                      cache_size |-> Null, image_format |-> Null,
                                      extension |-> Null, cache_files |-> NoneOpt,
                                      search |-> q ])
    /\ UNCHANGED << DISSECT_AVAILABLE, now, scan, progress_callback, singleton, naming, export, progress,
                    db, tx, scope, entry, files, pos, count, ret, exc, history >>

(* --------------------------- GET /api/stats --------------------------- *)

\* A client asks for /api/stats: db = get_db(); db.get_stats().
CallGetStats(t) ==
    /\ pc[t] = "idle"
    /\ request' = Some([ kind |-> "stats", ids |-> << >> ])
    /\ response' = NoneOpt
    /\ storeCalls' = 1
    /\ op' = [ op EXCEPT ![t] = "get_stats" ]
    /\ Goto(t, "stats")
    /\ UNCHANGED << DISSECT_AVAILABLE, now, scan, progress_callback, singleton, naming, query, progress,
                    db, tx, scope, entry, files, pos, count, ret, exc, history >>

\* get_stats over a store that nobody writes; the handler answers with it.
get_stats_return(t) ==
    /\ pc[t] = "stats"
    /\ response' = Some([ status |-> 200, kind |-> "stats",
                          body |-> get_stats(thumbnails, metadata) ])
    /\ storeCalls' = storeCalls + 1
    /\ Goto(t, "returned")
    /\ UNCHANGED << DISSECT_AVAILABLE, now, scan, progress_callback, singleton, naming, query, progress,
                    db, tx, locals, history, request >>

(* -------------------------- POST /api/refresh ------------------------- *)

\* The "selected_files" of the bodies posted to /api/refresh: none, a value
\* that is no list, the empty list, and lists of names.
RefreshBodies ==
    { [ kind |-> "missing", names |-> << >> ], [ kind |-> "not_list", names |-> << >> ] }
    \cup { [ kind |-> "list", names |-> l ] :
             l \in { << >>, << "thumbcache_32.db" >>,
                     << "thumbcache_32.db", "thumbcache_256.db" >> } }

\* The list of the body handed on whatever its length.
SelectedAsGiven(body) ==
    IF body.kind = "list" THEN Some(body.names) ELSE NoneOpt

\* selected_files as refresh_index passes it on: the body's list where it is
\* a list of at least one name, else None.
SelectedFiles(body) ==
    IF body.kind = "list" /\ Len(body.names) > 0 THEN Some(body.names) ELSE NoneOpt

\* refresh_index up to its call db.index_all(selected_files=selected_files):
\* 500 where the decoder is unavailable.
refresh_index(t, budget) ==
    /\ pc[t] = "idle"
    /\ calls < budget
    /\ calls' = calls + 1
    /\ storeCalls' = 0
    /\ op' = [ op EXCEPT ![t] = "index_all" ]
    /\ \E body \in RefreshBodies :
         /\ request' = Some([ kind |-> "refresh", selected_files |-> body ])
         /\ IF DISSECT_AVAILABLE
            THEN /\ scope' = [ scope EXCEPT ![t] = SelectedFiles(body) ]
                 /\ response' = NoneOpt
                 /\ Goto(t, "clear")
                 /\ UNCHANGED exc
            ELSE /\ response' = Some([ status |-> 500, kind |-> "error",
                                        body |-> "dissect.thumbcache library not installed" ])
                 /\ Raise(t, "HTTP 500")
                 /\ UNCHANGED scope
    /\ UNCHANGED << DISSECT_AVAILABLE, now, scan, progress_callback, singleton, naming, query, progress,
                    db, tx, entry, files, pos, count, ret,
                    removed, issued, seen, yielded, failedFiles >>

(* ------------------------------- get_db ------------------------------- *)

\* A request thread calls get_db().
CallGetDb(t) ==
    /\ pc[t] = "idle"
    /\ op' = [ op EXCEPT ![t] = "get_db" ]
    /\ Goto(t, "get_db_test")
    /\ UNCHANGED << others, progress, db, tx, scope, entry, files, pos, count, ret, exc,
                    history >>

\* if _db_instance is None:
get_db_test(t) ==
    /\ pc[t] = "get_db_test"
    /\ Goto(t, IF _db_instance = NoneOpt THEN "get_db_construct" ELSE "get_db_return")
    /\ UNCHANGED << others, progress, db, tx, locals, history >>

\* ThumbnailDatabase(): __init__ runs _init_db and gives a new instance,
\* held by the thread until it is assigned.
get_db_construct(t) ==
    /\ pc[t] = "get_db_construct"
    /\ constructed' = constructed + 1
    /\ ret' = [ ret EXCEPT ![t] = constructed + 1 ]
    /\ Goto(t, "get_db_assign")
    /\ UNCHANGED << DISSECT_AVAILABLE, now, scan, progress_callback, _db_instance, naming,
                    query, export, progress, db, tx, op, scope, entry, files, pos,
                    count, exc, history >>

\* _db_instance = <the new instance>
get_db_assign(t) ==
    /\ pc[t] = "get_db_assign"
    /\ _db_instance' = Some(ret[t])
    /\ Goto(t, "get_db_return")
    /\ UNCHANGED << DISSECT_AVAILABLE, now, scan, progress_callback, constructed, naming,
                    query, export, progress, db, tx, locals, history >>

\* return _db_instance
get_db_return(t) ==
    /\ pc[t] = "get_db_return"
    /\ ret' = [ ret EXCEPT ![t] = _db_instance[1] ]
    /\ Goto(t, "returned")
    /\ UNCHANGED << others, progress, db, tx, op, scope, entry, files, pos, count, exc,
                    history >>

(* -------------------- get_cache_size_from_filename -------------------- *)

\* A caller hands the function a file name.
CallCacheSize(f) ==
    /\ cache_name' = Some(f)
    /\ cache_code' = NoneOpt
    /\ UNCHANGED << DISSECT_AVAILABLE, now, scan, progress_callback, singleton, query,
                    export, progress, db, tx, pc, locals, history >>

\* The function returns the code of the name in hand.
cache_size_return ==
    /\ cache_name # NoneOpt
    /\ cache_code = NoneOpt
    /\ cache_code' = Some(get_cache_size_from_filename(cache_name[1]))
    /\ UNCHANGED << DISSECT_AVAILABLE, now, scan, progress_callback, singleton, query,
                    export, progress, db, tx, pc, locals, history, cache_name >>

(* ------------------------- POST /api/export --------------------------- *)

\* A client posts a body to /api/export.
PostExport(t) ==
    /\ pc[t] = "idle"
    /\ \E req \in Requests : request' = Some(req)
    /\ response' = NoneOpt
    /\ storeCalls' = 0
    /\ op' = [ op EXCEPT ![t] = "export_thumbnails" ]
    /\ Goto(t, "validate")
    /\ UNCHANGED << DISSECT_AVAILABLE, now, scan, progress_callback, singleton, naming, query, progress,
                    db, tx, scope, entry, files, pos, count, ret, exc, history >>

\* export_thumbnails up to `db = get_db()`: the three validations, each
\* answering 400.
export_thumbnails_validate(t) ==
    /\ pc[t] = "validate"
    /\ IF ValidationError(request[1]) # ""
       THEN /\ response' = Some([ status |-> 400, kind |-> "error",
                                   body |-> ValidationError(request[1]) ])
            /\ Goto(t, "returned")
       ELSE /\ Goto(t, "dispatch")
            /\ UNCHANGED response
    /\ UNCHANGED << DISSECT_AVAILABLE, now, scan, progress_callback, singleton, naming, query, progress,
                    db, tx, locals, history, request, storeCalls >>

\* export_thumbnails from `db = get_db()`: one id is answered with the PNG
\* or 404, more ids with the archive. (Nothing in the archive's making
\* raises on rows of these types, so the 500 answer does not occur.)
export_thumbnails_dispatch(t) ==
    /\ pc[t] = "dispatch"
    /\ storeCalls' = storeCalls + 2
    /\ LET ids == request[1].ids
       IN  response' =
             IF Len(ids) = 1
             THEN LET png_data == export_single_thumbnail(thumbnails, ids[1])
                  IN  IF png_data = NoneOpt
                      THEN Some([ status |-> 404, kind |-> "error",
                                  body |-> "Thumbnail not found" ])
                      ELSE Some([ status |-> 200, kind |-> "image/png",
                                  body |-> png_data[1] ])
             ELSE Some([ status |-> 200, kind |-> "application/zip",
                         body |-> export_thumbnails_to_zip(thumbnails, ids) ])
    /\ Goto(t, "returned")
    /\ UNCHANGED << DISSECT_AVAILABLE, now, scan, progress_callback, singleton, naming, query, progress,
                    db, tx, locals, history, request >>

(* --------------------------- specifications --------------------------- *)

Step(t, h, budget) ==
    \/ CallClearIndex(t, budget)
    \/ CallIndexThumbnail(t, budget)
    \/ CallIndexAll(t, budget)
    \/ clear_index_scoped(t, h)
    \/ clear_index_delete_thumbnails(t)
    \/ clear_index_delete_metadata(t)
    \/ clear_index_commit(t, h)
    \/ index_thumbnail(t, h)
    \/ parse_all_unavailable(t)
    \/ parse_all_start(t)
    \/ parse_entry(t, h)
    \/ parse_file_error(t, h)
    \/ parse_file_end(t)
    \/ set_last_indexed(t)
    \/ set_thumbnail_count(t)
    \/ set_selected_files(t)
    \/ storage_failure(t)
    \/ Return(t)

\* Request threads call the store concurrently, as many calls as there are
\* threads. The per-thread histories are not kept.
Next == \E t \in Threads : Step(t, FALSE, Cardinality(Threads))

Spec == Init /\ [][Next]_vars

\* One caller at a time: no concurrent writer. The histories of its calls
\* are kept.
NextSeq == Step(MainThread, TRUE, MaxCalls)

SpecSeq == Init /\ [][NextSeq]_vars

\* One index_all pass over long cache files, with or without a progress
\* callback.
InitProgress ==
    /\ Constructed
    /\ NoName
    /\ DISSECT_AVAILABLE \in BOOLEAN
    /\ EmptyStore
    /\ ThreadsIdle
    /\ progress_callback \in BOOLEAN
    /\ scan = << >>
    /\ NoQuery
    /\ NoExport

NextProgress ==
    \/ CallIndexAll(MainThread, 1)
    \/ clear_index_scoped(MainThread, FALSE)
    \/ clear_index_delete_thumbnails(MainThread)
    \/ clear_index_delete_metadata(MainThread)
    \/ clear_index_commit(MainThread, FALSE)
    \/ parse_all_unavailable(MainThread)
    \/ parse_all_start(MainThread)
    \/ index_all_entry(MainThread)
    \/ parse_file_end(MainThread)
    \/ set_last_indexed(MainThread)
    \/ set_thumbnail_count(MainThread)
    \/ set_selected_files(MainThread)

SpecProgress == InitProgress /\ [][NextProgress]_vars

\* One caller pages through a query over a store that nobody writes.
InitQuery ==
    /\ Constructed
    /\ NoName
    /\ DISSECT_AVAILABLE = TRUE
    /\ thumbnails \in QueryStores
    /\ metadata = EmptyMetadata
    /\ sqlite_sequence = Cardinality(thumbnails)
    /\ tx = {}
    /\ now = 1
    /\ ThreadsIdle
    /\ progress_callback = FALSE
    /\ scan \in ScanOrders({ r.id : r \in thumbnails })
    /\ NoQuery
    /\ NoExport

NextQuery ==
    \/ CallGetThumbnails(MainThread, QueryArgs)
    \/ get_thumbnails_count(MainThread)
    \/ get_thumbnails_page(MainThread)
    \/ Return(MainThread)

SpecQuery == InitQuery /\ [][NextQuery]_vars

\* The queries of the caller that reads while another thread writes: every
\* row, newest first, one or two a page.
RaceArgs ==
    { a \in QueryArgs :
        /\ a.sort = "newest"
        /\ \A f \in DOMAIN NoFilters : a[f] = NoFilters[f] }

\* The statements of the thread that writes: index_thumbnail and clear_index.
WriterStep(t) ==
    \/ CallIndexThumbnail(t, MaxCalls)
    \/ index_thumbnail(t, FALSE)
    \/ CallClearIndex(t, MaxCalls)
    \/ clear_index_scoped(t, FALSE)
    \/ clear_index_delete_thumbnails(t)
    \/ clear_index_delete_metadata(t)
    \/ clear_index_commit(t, FALSE)
    \/ Return(t)

\* One request thread queries while another writes; each has its own
\* connection, and the query reads what is committed.
NextRace ==
    \/ CallGetThumbnails(MainThread, RaceArgs)
    \/ get_thumbnails_count(MainThread)
    \/ get_thumbnails_page(MainThread)
    \/ Return(MainThread)
    \/ \E t \in Threads \ {MainThread} : WriterStep(t)

SpecRace == Init /\ [][NextRace]_vars

\* One client posts export requests to a store that nobody writes.
InitExport ==
    /\ Constructed
    /\ NoName
    /\ DISSECT_AVAILABLE = TRUE
    /\ thumbnails \in ExportStores
    /\ metadata = EmptyMetadata
    /\ sqlite_sequence = Cardinality(thumbnails)
    /\ tx = {}
    /\ now = 1
    /\ ThreadsIdle
    /\ progress_callback = FALSE
    /\ scan = << >>
    /\ NoQuery
    /\ NoExport

NextExport ==
    \/ PostExport(MainThread)
    \/ export_thumbnails_validate(MainThread)
    \/ export_thumbnails_dispatch(MainThread)
    \/ Return(MainThread)

SpecExport == InitExport /\ [][NextExport]_vars

\* One client of the two list endpoints, over a store that nobody writes.
NextApi ==
    \/ api_get_thumbnails(MainThread)
    \/ search_thumbnails(MainThread)
    \/ get_thumbnails_count(MainThread)
    \/ get_thumbnails_page(MainThread)
    \/ Return(MainThread)

SpecApi == InitQuery /\ [][NextApi]_vars

\* One client asks for the statistics of a store that nobody writes.
InitStats ==
    /\ Constructed
    /\ NoName
    /\ DISSECT_AVAILABLE = TRUE
    /\ thumbnails \in StatsStores
    /\ metadata = EmptyMetadata
    /\ sqlite_sequence = Cardinality(thumbnails)
    /\ tx = {}
    /\ now = 1
    /\ ThreadsIdle
    /\ progress_callback = FALSE
    /\ scan = << >>
    /\ NoQuery
    /\ NoExport

NextStats ==
    \/ CallGetStats(MainThread)
    \/ get_stats_return(MainThread)
    \/ Return(MainThread)

SpecStats == InitStats /\ [][NextStats]_vars

\* index_all passes one after the other, called directly with any scope or
\* by the reindex HTTP trigger.
NextRefresh ==
    \/ CallIndexAll(MainThread, MaxCalls)
    \/ refresh_index(MainThread, MaxCalls)
    \/ clear_index_scoped(MainThread, FALSE)
    \/ clear_index_delete_thumbnails(MainThread)
    \/ clear_index_delete_metadata(MainThread)
    \/ clear_index_commit(MainThread, FALSE)
    \/ parse_all_unavailable(MainThread)
    \/ parse_all_start(MainThread)
    \/ parse_entry(MainThread, FALSE)
    \/ parse_file_end(MainThread)
    \/ set_last_indexed(MainThread)
    \/ set_thumbnail_count(MainThread)
    \/ set_selected_files(MainThread)
    \/ Return(MainThread)

SpecRefresh == Init /\ [][NextRefresh]_vars

\* The process before any call of get_db(): no instance yet.
InitSingleton ==
    /\ DISSECT_AVAILABLE \in BOOLEAN
    /\ _db_instance = NoneOpt
    /\ constructed = 0
    /\ NoName
    /\ EmptyStore
    /\ ThreadsIdle
    /\ progress_callback = FALSE
    /\ scan = << >>
    /\ NoQuery
    /\ NoExport

\* Request threads call get_db() concurrently, again and again.
NextSingleton ==
    \E t \in Threads :
        \/ CallGetDb(t)
        \/ get_db_test(t)
        \/ get_db_construct(t)
        \/ get_db_assign(t)
        \/ get_db_return(t)
        \/ Return(t)

SpecSingleton == InitSingleton /\ [][NextSingleton]_vars

\* get_cache_size_from_filename applied to one file name after another.
NextNaming ==
    \/ \E f \in FileNames : CallCacheSize(f)
    \/ cache_size_return

SpecNaming == Init /\ [][NextNaming]_vars

(* ------------------------------- claims ------------------------------- *)

M == MainThread

\* The thread took this step (every action moves its thread's pc or pos).
Moved(t) == pc'[t] # pc[t] \/ pos'[t] # pos[t]

Outside(rows, names) == { r \in rows : r.cache_file \notin Range(names) }

Ids(rows) == { r.id : r \in rows }

\* The caller's index_thumbnail has just returned.
UpsertReturned == pc[M] = "returned" /\ op[M] = "index_thumbnail"

\* The caller's index_all has just returned.
ReindexReturned == pc[M] = "returned" /\ op[M] = "index_all"

\* C1: after an upsert of an entry, the table holds exactly one row for the
\* entry's (cache_file, cache_key), and every field of that row is the one
\* the call gave; so of two upserts of one key, the second call's fields
\* are the ones stored.
C1_UpsertIdempotence ==
    UpsertReturned =>
        LET e == entry[M][1]
            m == { r \in thumbnails : SameKey(r, e) }
        IN  Cardinality(m) = 1 /\ \A r \in m : Fields(r) = e

\* An upsert has returned that replaced a row of the same key holding a
\* different payload.
C1_Witness ==
    /\ UpsertReturned
    /\ \E r \in removed[M] :
        /\ SameKey(r, entry[M][1])
        /\ r.data # entry[M][1].data

\* C2: in every state, committed or inside an open transaction, no two rows
\* share (cache_file, cache_key), whatever the interleaving of the threads'
\* upserts, clears and reindex passes.
C2_Uniqueness ==
    \A rows \in {thumbnails} \cup { w.thumbnails : w \in tx } :
        \A r1, r2 \in rows :
            (r1.cache_file = r2.cache_file /\ r1.cache_key = r2.cache_key) => r1 = r2

\* Two threads have each upserted the same key, one right after the other,
\* and one row is left.
C2_Witness ==
    /\ \A t \in Threads : pc[t] = "returned" /\ op[t] = "index_thumbnail"
    /\ \A t, u \in Threads : SameKey(entry[t][1], entry[u][1])
    /\ { ret[t] : t \in Threads } = {1, 2}
    /\ Cardinality(thumbnails) = 1

\* C3: an upsert of a key that already has a row returns that row's id, and
\* get_thumbnail_by_id of that id still finds the row.
C3_IdentityPreserved ==
    UpsertReturned =>
        \A r \in removed[M] :
            /\ ret[M] = r.id
            /\ get_thumbnail_by_id(thumbnails, r.id) # {}

\* C4: no row id is returned by two upserts, whatever clears came between.
C4_IdsNeverReused ==
    \A i, j \in 1..Len(issued) : issued[i] = issued[j] => i = j

\* An upsert has returned a fresh id although the table was empty again (a
\* clear had deleted the row of an id issued before).
C4_Witness ==
    /\ UpsertReturned
    /\ removed[M] = {}
    /\ Len(issued) = 2
    /\ Ids(thumbnails) = { ret[M] }

\* C5: with the decoder unavailable, no step of index_all changes the rows
\* or the run metadata.
C5_FailFastBeforeClear ==
    [][ (~DISSECT_AVAILABLE /\ op[M] = "index_all")
          => (thumbnails' = thumbnails /\ metadata' = metadata) ]_vars

\* C6: a clear_index with a non-empty list deletes exactly the rows whose
\* cache_file is in the list and leaves the other rows and the metadata as
\* they were.
C6_ScopedClearFrame ==
    [][ \A t \in Threads :
          (pc[t] = "clear" /\ Truthy(scope[t]) /\ pc'[t] \notin {"clear", "raised"})
            => /\ thumbnails' = Outside(thumbnails, scope[t][1])
               /\ metadata' = metadata ]_vars

\* A scoped clear has returned: it deleted a row, a row of another file is
\* still there, and the run metadata is still set.
C6_Witness ==
    /\ pc[M] = "returned" /\ op[M] = "clear_index" /\ Truthy(scope[M])
    /\ removed[M] # {}
    /\ thumbnails # {}
    /\ \A k \in MetaKeys : metadata[k] # Null

\* Where a clear_index is between its first statement and its commit.
ClearSteps == { "clear", "clear_metadata", "clear_commit" }

\* C7: a step of a whole-store clear either leaves the committed rows and
\* metadata as they are (a statement inside the transaction, or a failure),
\* or, at its commit, leaves both tables empty.
C7_ClearAtomic ==
    [][ \A t \in Threads :
          (pc[t] \in ClearSteps /\ ~Truthy(scope[t]) /\ pc'[t] # pc[t])
            => IF pc[t] = "clear_commit" /\ pc'[t] # "raised"
               THEN thumbnails' = {} /\ metadata' = EmptyMetadata
               ELSE thumbnails' = thumbnails /\ metadata' = metadata ]_vars

\* A whole-store clear is between its two DELETEs while the committed tables
\* still hold rows and metadata.
C7_Witness ==
    \E t \in Threads :
        /\ pc[t] = "clear_metadata"
        /\ thumbnails # {}
        /\ metadata # EmptyMetadata

\* C8: no step of an index_all with a non-empty selected_files changes a row
\* of a file outside the list, and every row it adds is of a file in the
\* list.
C8_ScopedReindexFrame ==
    [][ \A t \in Threads :
          (op[t] = "index_all" /\ Truthy(scope[t]) /\ Moved(t))
            => /\ Outside(thumbnails', scope[t][1]) = Outside(thumbnails, scope[t][1])
               /\ \A r \in thumbnails' \ thumbnails :
                    r.cache_file \in Range(scope[t][1]) ]_vars

\* A scoped index_all has returned after indexing an entry, while a row of a
\* file outside its list is in the table.
C8_Witness ==
    \E t \in Threads :
        /\ pc[t] = "returned" /\ op[t] = "index_all" /\ Truthy(scope[t])
        /\ count[t] >= 1
        /\ Outside(thumbnails, scope[t][1]) # {}
        /\ Outside(thumbnails, scope[t][1]) # thumbnails

\* C9 as stated: an unscoped index_all returns the number of non-empty
\* entries decoded, which is also the number of rows afterwards.
C9_CountIsRows ==
    (ReindexReturned /\ scope[M] = NoneOpt) =>
        /\ ret[M] = seen[M]
        /\ ret[M] = Cardinality(thumbnails)

\* C9 as amended: the count is the number of non-empty entries decoded, and
\* the number of rows afterwards is the number of distinct (cache_file,
\* cache_key) pairs among them.
C9_CountAndDistinctKeys ==
    (ReindexReturned /\ scope[M] = NoneOpt) =>
        /\ ret[M] = seen[M]
        /\ Cardinality(thumbnails) = Cardinality(yielded[M])
        /\ { << r.cache_file, r.cache_key >> : r \in thumbnails } = yielded[M]

\* An unscoped index_all has returned 2 with two rows in the table.
C9_Witness ==
    /\ ReindexReturned /\ scope[M] = NoneOpt
    /\ ret[M] = 2
    /\ Cardinality(thumbnails) = 2

\* C10: a decode failure never leaves index_all as an exception; and a pass
\* that returns after one has gone through every file, returns its count,
\* has every entry it was yielded in the table, and has written the run
\* metadata.
C10_FailureIsolation ==
    /\ exc[M] # "DecodeError"
    /\ (ReindexReturned /\ failedFiles[M] # {}) =>
        /\ files[M] = <<>>
        /\ ret[M] = count[M]
        /\ \A y \in yielded[M] :
             \E r \in thumbnails : r.cache_file = y[1] /\ r.cache_key = y[2]
        /\ metadata["last_indexed"] # Null
        /\ metadata["thumbnail_count"] = ToString(ret[M])
        /\ metadata["selected_files"] # Null

\* An index_all has returned after the first file's decoding failed and an
\* entry of the second file was indexed.
C10_Witness ==
    /\ ReindexReturned
    /\ failedFiles[M] = { "thumbcache_32.db" }
    /\ \E y \in yielded[M] : y[1] = "thumbcache_256.db"
    /\ ret[M] >= 1

\* Where index_all is at one of its three metadata writes.
MetadataSteps == { "set_last_indexed", "set_thumbnail_count", "set_selected_files" }

\* C11: an index_all that returns has written last_indexed, thumbnail_count
\* equal to the count it returns, and selected_files equal to the list it was
\* given joined by commas ('' when it was given None); it writes metadata
\* only once its loop is over, and upserts nothing from its first metadata
\* write on.
C11_RunMetadata ==
    /\ [](ReindexReturned =>
            /\ metadata["last_indexed"] = NowIso
            /\ metadata["thumbnail_count"] = ToString(ret[M])
            /\ metadata["selected_files"] =
                 (IF scope[M] = NoneOpt THEN "" ELSE Join(scope[M][1])))
    /\ [][ (op[M] = "index_all" /\ pc[M] \in MetadataSteps)
             => (files[M] = <<>> /\ thumbnails' = thumbnails /\ count' = count) ]_vars
    /\ [][ (op[M] = "index_all" /\ pc[M] \notin ClearSteps /\ metadata' # metadata)
             => pc[M] \in MetadataSteps ]_vars

\* A scoped index_all has returned a count of at least 1 and the store's
\* selected_files is its list.
C11_Witness ==
    /\ ReindexReturned
    /\ scope[M] = Some(<< "thumbcache_32.db", "thumbcache_256.db" >>)
    /\ ret[M] >= 1
    /\ metadata["selected_files"] = "thumbcache_32.db,thumbcache_256.db"

\* The calls a callback gets from a pass that has counted n entries: one
\* for each positive multiple of 100 up to n, in increasing order, as
\* (processedCount, None).
CadenceCalls(n) == [ i \in 1..(n \div 100) |-> << 100 * i, NoneOpt >> ]

\* C12: an index_all given a progress callback has, at every point of its
\* pass, called it exactly once for each positive multiple of 100 its count
\* has reached, in increasing order, with (count, None), and at no other
\* count.
C12_ProgressCadence ==
    progress_callback => progress = CadenceCalls(count[M])

\* A pass given a callback has returned a count of 250 after two calls of
\* the callback.
C12_Witness ==
    /\ progress_callback
    /\ ReindexReturned
    /\ ret[M] = 250
    /\ Len(progress) = 2

\* The caller has paged through the whole query: the last page came back empty.
PagingDone == pages # << >> /\ pages[Len(pages)] = << >>

\* The number of summaries on the pages returned so far.
RECURSIVE Returned(_)
Returned(pp) == IF pp = << >> THEN 0 ELSE Len(Head(pp)) + Returned(Tail(pp))

\* C13: paging through an unchanging store with any filter, any sort value
\* (rows with equal sort keys included) and any page size returns no row id
\* twice, neither on two pages nor on one, at most per_page summaries a page,
\* and, once the pages are exhausted, exactly as many summaries as the total
\* the query reports.
C13_Pagination ==
    /\ \A i, j \in 1..Len(pages) :
         i < j => Range(pages[i]) \cap Range(pages[j]) = {}
    /\ \A i \in 1..Len(pages) :
         /\ Cardinality(Range(pages[i])) = Len(pages[i])
         /\ Len(pages[i]) <= args[1].per_page
    /\ PagingDone => Returned(pages) = total

\* Two rows of equal payload size came back on different pages of a query
\* sorted by size, and the pages are exhausted.
C13_Witness ==
    /\ PagingDone
    /\ args[1].sort = "largest"
    /\ \E r1, r2 \in thumbnails :
         /\ r1.id # r2.id
         /\ r1.data_size = r2.data_size
         /\ \E i, j \in 1..Len(pages) :
              i # j /\ r1.id \in Range(pages[i]) /\ r2.id \in Range(pages[j])

\* get_thumbnails has returned to its caller.
QueryReturned == pc[M] = "returned" /\ op[M] = "get_thumbnails"

\* The rows left for a page after the offset, at most per_page of them.
PageLength(n, a) ==
    Min(a.per_page,
        IF n > Offset(a.page, a.per_page) THEN n - Offset(a.page, a.per_page) ELSE 0)

\* C14: the summaries and the total a call of get_thumbnails returns are
\* computed from one state of the store, also while another thread writes:
\* the page holds as many summaries as a store of `total` rows leaves for it
\* (so it is never non-empty with a total of 0).
C14_OneUnitOfWork ==
    QueryReturned => Len(listed) = PageLength(total, args[1])

\* The text holds the term as a substring, letter case aside.
HasSubstring(v, term) == v # Null /\ Contains(Lower(v), Lower(term))

\* The conjunction of the supplied filters, as the claim words them.
Satisfies(r, a) ==
    /\ Given(a.cache_size) => r.cache_size = a.cache_size
    /\ Given(a.image_format) => r.image_format = a.image_format
    /\ Given(a.extension) => HasSubstring(r.extension, a.extension)
    /\ Truthy(a.cache_files) => r.cache_file \in Range(a.cache_files[1])
    /\ Given(a.search) =>
         \E f \in { "hash", "cache_key", "entry_hash", "extension" } :
            HasSubstring(r[f], a.search)

\* C15: every summary get_thumbnails returns satisfies all the supplied
\* filters at once (cache size equal, image format equal, extension holding
\* the given substring, cache file in the given list, search term held by the
\* hash, the cache key, the entry hash or the extension), and the total is the
\* number of rows that satisfy them, whatever the page, page size and sort.
C15_FilterSemantics ==
    QueryReturned =>
        /\ \A i \in 1..Len(listed) : Satisfies(listed[i], args[1])
        /\ total = Cardinality({ r \in thumbnails : Satisfies(r, args[1]) })

\* The row ids of the pages returned so far, first page first.
RECURSIVE Flatten(_)
Flatten(pp) == IF pp = << >> THEN << >> ELSE Head(pp) \o Flatten(Tail(pp))

\* The rows of the store in the order the pages returned them.
ReturnedRows ==
    [ i \in 1..Len(Flatten(pages)) |->
        CHOOSE r \in thumbnails : r.id = Flatten(pages)[i] ]

\* C16: the pages of a query over an unchanging store, one after the other,
\* are ordered by payload size non-increasing for sort "largest" and
\* non-decreasing for "smallest"; for "modified" no row with a null
\* last_modified comes before a row that has one, and those that have one
\* come latest first; a sort value outside the enumeration returns the page
\* that "newest" returns, indexed_at non-increasing.
C16_SortOrder ==
    /\ (QueryReturned /\ args[1].sort \notin DOMAIN sort_mapping) =>
         listed = SelectPage(thumbnails, [ args[1] EXCEPT !.sort = "newest" ])
    /\ \A i, j \in 1..Len(ReturnedRows) :
          i < j =>
              LET r1 == ReturnedRows[i]
                  r2 == ReturnedRows[j]
              IN  /\ args[1].sort = "largest" => r1.data_size >= r2.data_size
                  /\ args[1].sort = "smallest" => r1.data_size <= r2.data_size
                  /\ args[1].sort = "modified" =>
                       /\ r1.last_modified = Null => r2.last_modified = Null
                       /\ (r1.last_modified # Null /\ r2.last_modified # Null) =>
                            ~TextLess(r1.last_modified, r2.last_modified)
                  /\ args[1].sort \notin DOMAIN sort_mapping =>
                       r1.indexed_at >= r2.indexed_at

\* A query sorted by "modified" returned, over two pages, a later
\* last_modified, an earlier one and a null one, in that order, from a store
\* whose scan comes to them in the opposite order.
C16_Witness ==
    /\ args # NoneOpt
    /\ args[1].sort = "modified"
    /\ Len(ReturnedRows) = 3
    /\ Len(pages) = 2
    /\ ReturnedRows[3].last_modified = Null
    /\ TextLess(ReturnedRows[2].last_modified, ReturnedRows[1].last_modified)
    /\ ScanPos(ReturnedRows[3].id) < ScanPos(ReturnedRows[2].id)
    /\ ScanPos(ReturnedRows[2].id) < ScanPos(ReturnedRows[1].id)

\* The export request in hand carries an id list.
ListGiven == request # NoneOpt /\ request[1].kind = "list"

\* The export request in hand carries an id list of n ids.
Listed(n) == ListGiven /\ Len(request[1].ids) = n

\* The request in hand has been answered.
Answered == request # NoneOpt /\ response # NoneOpt

\* C17: an export request with no ids or with more than MAX_EXPORT_COUNT ids
\* is answered with the validation error 400 and no operation of the store is
\* invoked for it at any point; a request with 1 to MAX_EXPORT_COUNT ids is
\* not answered with a validation error.
C17_ExportBound ==
    /\ (Listed(0) \/ (ListGiven /\ Len(request[1].ids) > MAX_EXPORT_COUNT)) =>
         /\ storeCalls = 0
         /\ pc[M] # "dispatch"
         /\ Answered => response[1].status = 400
    /\ (Answered /\ \E n \in 1..MAX_EXPORT_COUNT : Listed(n)) =>
         response[1].status # 400

\* A request with one id more than the ceiling was answered 400 with no
\* operation of the store invoked.
C17_Witness ==
    /\ Answered
    /\ Listed(MAX_EXPORT_COUNT + 1)
    /\ response[1].status = 400
    /\ storeCalls = 0

\* The image members of the archive in the answer.
ImageMembers ==
    SelectSeq(response[1].body, LAMBDA m : m.kind = "image")

\* The names of the archive's members that are no images.
ReportNames ==
    LET reports == SelectSeq(response[1].body, LAMBDA m : m.kind # "image")
    IN  [ k \in 1..Len(reports) |-> reports[k].name ]

\* The rows of the store the request's id list names.
Named == { r \in thumbnails : r.id \in Range(request[1].ids) }

\* A request with two or more ids has been answered.
MultiAnswered ==
    /\ Answered
    /\ request[1].kind = "list"
    /\ Len(request[1].ids) >= 2
    /\ ~TooMany(Len(request[1].ids))

\* C18: an export of two or more ids that name N distinct rows of the store
\* (and any missing or repeated ids besides) is answered without error with
\* an archive of exactly N images, one for each named row and each under
\* its own path, and exactly the two reports metadata.txt and metadata.csv.
C18_ExportComplete ==
    MultiAnswered =>
        /\ response[1].status = 200
        /\ response[1].kind = "application/zip"
        /\ Len(ImageMembers) = Cardinality(Named)
        /\ \A r \in Named :
             \E k \in 1..Len(ImageMembers) :
                 /\ ImageMembers[k].name = full_path(r)
                 /\ ImageMembers[k].content = get_thumbnail_as_png(r.data)
        /\ \A k, l \in 1..Len(ImageMembers) :
             ImageMembers[k].name = ImageMembers[l].name => k = l
        /\ ReportNames = << "metadata.txt", "metadata.csv" >>

\* An id list with a repeated id, a missing id and two ids of rows was
\* answered with an archive of two images.
C18_Witness ==
    /\ MultiAnswered
    /\ Cardinality(Named) = 2
    /\ Len(request[1].ids) > Cardinality(Range(request[1].ids))
    /\ Range(request[1].ids) \ Ids(thumbnails) # {}
    /\ Len(ImageMembers) = 2

\* C19: an export of exactly one id is answered with that row's image as
\* PNG where the row exists (with the stored bytes where they cannot be
\* decoded) and with 404 where it does not; an export of two or more ids is
\* always answered with an archive, never 404, also where none of the ids
\* exists and where all are the same id.
C19_ExportDispatch ==
    /\ (Answered /\ Listed(1)) =>
         LET found == get_thumbnail_by_id(thumbnails, request[1].ids[1])
         IN  IF found = {}
             THEN response[1].status = 404
             ELSE /\ response[1].status = 200
                  /\ response[1].kind = "image/png"
                  /\ \A r \in found :
                       response[1].body =
                          IF get_image_info(r.data).format = Null THEN r.data
                          ELSE PngEncode(r.data)
    /\ MultiAnswered =>
         /\ response[1].status = 200
         /\ response[1].kind = "application/zip"

\* One id of a row whose payload cannot be decoded was answered with the
\* stored bytes.
C19_Witness ==
    /\ Answered
    /\ Listed(1)
    /\ \E r \in thumbnails :
         /\ r.id = request[1].ids[1]
         /\ get_image_info(r.data).format = Null
         /\ response[1].status = 200
         /\ response[1].body = r.data

\* The component of an archive path for an optional text: "unknown" for null.
OrUnknown(v) == IF v = Null THEN "unknown" ELSE v

\* C20: every image of a multi-id export is stored at
\* <cache_size>/<id>_<first 8 characters of hash>[_<extension>].png, with
\* "unknown" for a cache_size or a hash that is null.
C20_ArchiveNaming ==
    MultiAnswered =>
        \A r \in Named :
            \E k \in 1..Len(ImageMembers) :
                ImageMembers[k].name =
                    OrUnknown(r.cache_size) \o "/" \o ToString(r.id) \o "_"
                    \o (IF r.hash = Null THEN "unknown"
                        ELSE SubSeq(r.hash, 1, Min(8, Len(r.hash))))
                    \o (IF r.extension = Null THEN ""
                        ELSE "_" \o RemoveDots(r.extension))
                    \o ".png"

\* The calls that are one operation of the store in one transaction.
SingleOps == { "clear_index", "index_thumbnail" }

\* C21: a storage failure in an operation of the store (an upsert, a clear,
\* a metadata write of index_all) leaves the committed rows and run metadata
\* as they were: no step of a clear_index or an index_thumbnail call other
\* than its successful commit changes them, the step that raises changes
\* nothing in any operation and leaves no transaction open, and the caller
\* gets the error that was raised.
C21_Rollback ==
    /\ [][ (op[M] \in SingleOps /\ pc'[M] # "returned") => db' = db ]_vars
    /\ [][ (pc[M] # "raised" /\ pc'[M] = "raised" /\ exc'[M] = "OperationalError") =>
              (db' = db /\ ~InTx(M)') ]_vars
    /\ [](pc[M] = "raised" /\ op[M] \in SingleOps => exc[M] = "OperationalError")

\* An unscoped clear_index raised over a store that holds rows and run
\* metadata: both are still there.
C21_Witness ==
    /\ pc[M] = "raised"
    /\ op[M] = "clear_index"
    /\ ~Truthy(scope[M])
    /\ exc[M] = "OperationalError"
    /\ thumbnails # {}
    /\ metadata # EmptyMetadata

\* index_thumbnail has returned to the thread.
Upserted(t) == pc[t] = "returned" /\ op[t] = "index_thumbnail"

\* C22: every row any reader can see holds the fields of one entry, never a
\* mix of two; and when two threads have upserted one key concurrently, the
\* store holds exactly one row of that key, with the fields of the upsert
\* that committed last (the one that got the larger row id).
C22_ConcurrentUpserts ==
    /\ \A r \in thumbnails : Fields(r) \in Entries
    /\ \A t, u \in Threads :
         (t # u /\ Upserted(t) /\ Upserted(u) /\ SameKey(entry[t][1], entry[u][1])) =>
            LET last == IF ret[t] > ret[u] THEN t ELSE u
                rows == { r \in thumbnails : SameKey(r, entry[t][1]) }
            IN  /\ Cardinality(rows) = 1
                /\ \A r \in rows : Fields(r) = entry[last][1] /\ r.id = ret[last]

\* Two threads have upserted one key with different payloads; the row left
\* has the payload of the later one.
C22_Witness ==
    \E t, u \in Threads :
        /\ Upserted(t) /\ Upserted(u)
        /\ ret[t] < ret[u]
        /\ SameKey(entry[t][1], entry[u][1])
        /\ entry[t][1].data # entry[u][1].data
        /\ \E r \in thumbnails : r.data = entry[u][1].data /\ r.id = ret[u]

\* C23: every row of the store, committed or in a transaction, has a
\* non-empty payload and a data_size that is the payload's length; and
\* index_all has counted exactly the entries with a non-empty payload it has
\* come to, so an empty or absent payload is neither indexed nor counted.
C23_PayloadInvariant ==
    /\ \A rows \in {thumbnails} \cup { w.thumbnails : w \in tx } :
         \A r \in rows : Len(r.data) > 0 /\ r.data_size = Len(r.data)
    /\ (op[M] = "index_all" /\ pc[M] # "raised") => count[M] = seen[M]
    /\ ReindexReturned => ret[M] = seen[M]

\* index_all has come to two entries of the first cache file, skipped one of
\* them and indexed and counted the other.
C23_Witness ==
    /\ op[M] = "index_all"
    /\ pc[M] = "parse"
    /\ Len(files[M]) = Cardinality(DiskNames)
    /\ pos[M] = 2
    /\ count[M] = 1
    /\ Cardinality(thumbnails) = 1

\* C24: every call of get_thumbnails the two list endpoints make passes a
\* per_page within 1..1000, whatever per_page the request carried.
C24_PageSizeClamp ==
    args # NoneOpt => args[1].per_page \in 1..1000

\* get_stats has been answered.
StatsAnswered == Answered /\ request[1].kind = "stats"

\* The sum of the counts of a group.
RECURSIVE SumCounts(_)
SumCounts(f) ==
    IF DOMAIN f = {} THEN 0
    ELSE LET k == CHOOSE x \in DOMAIN f : TRUE
         IN  f[k] + SumCounts([ x \in DOMAIN f \ {k} |-> f[x] ])

\* The counts are those of the rows that have each value of the column.
CountsOf(f, rows, col) ==
    /\ DOMAIN f = { r[col] : r \in rows }
    /\ \A v \in DOMAIN f : f[v] = Cardinality({ r \in rows : r[col] = v })

\* C25: in any store state get_stats reports the number of rows as total,
\* counts by cache file and by cache size that each sum to it, counts by
\* image format over exactly the rows with a format, counts by extension
\* over exactly the rows with an extension that is neither null nor empty,
\* and the sum of data_size over all rows as total size, 0 for no rows.
C25_StatsAggregates ==
    StatsAnswered =>
        LET st == response[1].body
            formatted == { r \in thumbnails : r.image_format # Null }
            extended == { r \in thumbnails : r.extension \notin { Null, "" } }
        IN  /\ st.total_thumbnails = Cardinality(thumbnails)
            /\ CountsOf(st.by_cache_file, thumbnails, "cache_file")
            /\ SumCounts(st.by_cache_file) = st.total_thumbnails
            /\ CountsOf(st.by_cache_size, thumbnails, "cache_size")
            /\ SumCounts(st.by_cache_size) = st.total_thumbnails
            /\ CountsOf(st.by_image_format, formatted, "image_format")
            /\ SumCounts(st.by_image_format) = Cardinality(formatted)
            /\ CountsOf(st.by_extension, extended, "extension")
            /\ SumCounts(st.by_extension) = Cardinality(extended)
            /\ st.total_data_size_bytes = SumDataSize(thumbnails)
            /\ thumbnails = {} => st.total_data_size_bytes = 0

\* Statistics of a store of three rows, one with a null cache_size, one with
\* an empty extension and one without a format.
C25_Witness ==
    /\ StatsAnswered
    /\ Cardinality(thumbnails) = 3
    /\ \E r \in thumbnails : r.cache_size = Null
    /\ \E r \in thumbnails : r.extension = ""
    /\ \E r \in thumbnails : r.image_format = Null
    /\ response[1].body.total_data_size_bytes > 3

\* An index_all pass with no scope has raised after upserting entries.
PassRaised ==
    /\ pc[M] = "raised"
    /\ op[M] = "index_all"
    /\ ~Truthy(scope[M])
    /\ count[M] > 0

\* The (cache_file, cache_key) pairs of the rows.
Keys(rows) == { << r.cache_file, r.cache_key >> : r \in rows }

\* C26: a reindex that raises after its clear step, for one after upserts,
\* leaves the cleared rows deleted and the upserted rows committed, and has
\* written none of the run metadata keys.
C26_NoMetadataWritten ==
    PassRaised =>
        /\ Keys(thumbnails) = yielded[M]
        /\ metadata = EmptyMetadata

\* C26 as amended: the rows are as the claim says, whatever statement
\* failed; none of the run metadata keys is written where the pass raised
\* before its first metadata write (the decoder unavailable, or an upsert
\* failing); where a metadata write failed, the keys written before it, in the
\* order last_indexed, thumbnail_count, selected_files, stay written.
C26_PartialPassStays ==
    /\ PassRaised =>
         /\ Keys(thumbnails) = yielded[M]
         /\ count[M] = seen[M]
         /\ files[M] # << >> => metadata = EmptyMetadata
         /\ files[M] = << >> =>
              \/ metadata = EmptyMetadata
              \/ metadata = SetMeta(EmptyMetadata, "last_indexed", NowIso)
              \/ metadata = SetMeta(SetMeta(EmptyMetadata, "last_indexed", NowIso),
                                    "thumbnail_count", ToString(count[M]))
    /\ (pc[M] = "raised" /\ op[M] = "index_all" /\ exc[M] = "ImportError") =>
         /\ Truthy(scope[M]) => \A r \in thumbnails : r.cache_file \notin Range(scope[M][1])
         /\ ~Truthy(scope[M]) => thumbnails = {} /\ metadata = EmptyMetadata

\* The second upsert of a pass failed: the row of the first is committed,
\* the row an earlier call had put in the store is gone, and no run metadata
\* is written.
C26_Witness ==
    /\ PassRaised
    /\ exc[M] = "OperationalError"
    /\ files[M] # << >>
    /\ count[M] = 1
    /\ pos[M] = 1
    /\ Len(issued) = 2
    /\ Ids(thumbnails) = {2}
    /\ metadata = EmptyMetadata

\* index_all runs with the empty list as its scope, past its clear step.
EmptyScopePass ==
    /\ op[M] = "index_all"
    /\ scope[M] = Some(<< >>)
    /\ pc[M] \notin { "idle", "clear", "clear_metadata", "clear_commit" }

\* C27: index_all with selected_files=[] deletes every row and all run
\* metadata (clear takes the empty list for no scope), indexes no entry
\* (the decoder's filter takes it for a scope of no files), returns 0 and
\* writes '' as selected_files; and the reindex HTTP trigger hands index_all
\* either None or a list of at least one name, never the empty list.
C27_EmptyScope ==
    /\ [](EmptyScopePass => thumbnails = {} /\ count[M] = 0 /\ files[M] = << >>)
    /\ []((EmptyScopePass /\ pc[M] = "iter_start") => metadata = EmptyMetadata)
    /\ []((EmptyScopePass /\ pc[M] = "returned") =>
            /\ ret[M] = 0
            /\ metadata = [ last_indexed |-> NowIso, thumbnail_count |-> "0",
                            selected_files |-> "" ])
    /\ [][ (request' # request /\ pc'[M] = "clear") =>
              /\ scope'[M] = NoneOpt \/ Truthy(scope'[M])
              /\ scope'[M] = NoneOpt <=>
                    ~(request'[1].selected_files.kind = "list"
                      /\ request'[1].selected_files.names # << >>) ]_vars

\* index_all(selected_files=[]) has returned 0 over a store that an earlier
\* pass had filled and that is empty now.
C27_Witness ==
    /\ EmptyScopePass
    /\ pc[M] = "returned"
    /\ ret[M] = 0
    /\ Len(issued) > 0
    /\ thumbnails = {}
    /\ metadata["selected_files"] = ""

\* get_db() has returned to the thread.
GotDb(t) == pc[t] = "returned" /\ op[t] = "get_db"

\* C28: every call of get_db(), from any thread and under any interleaving
\* of first calls, returns the same instance, and ThumbnailDatabase.__init__
\* runs at most once in the process.
C28_Singleton ==
    /\ constructed <= 1
    /\ \A t, u \in Threads : (GotDb(t) /\ GotDb(u)) => ret[t] = ret[u]

\* The code the category list gives each pattern.
CodeOf(pattern) == IF pattern = "wide_alternate" THEN "wide_alt" ELSE pattern

\* The name, in lower case, holds one of the twelve patterns after "thumbcache_".
HoldsPattern(f) ==
    \E i \in 1..Len(Patterns) : Contains(Lower(f), "thumbcache_" \o Patterns[i])

\* C29: the file thumbcache_<pattern>.db is given the code of that pattern,
\* for each of the twelve patterns ("wide_alt" for wide_alternate, "2560" for
\* 2560), and a name that holds none of the patterns is given "unknown".
C29_CategoryDerivation ==
    cache_code # NoneOpt =>
        /\ \A i \in 1..Len(Patterns) :
               cache_name = Some("thumbcache_" \o Patterns[i] \o ".db") =>
                   cache_code = Some(CodeOf(Patterns[i]))
        /\ ~HoldsPattern(cache_name[1]) => cache_code = Some("unknown")

====
